---- MODULE Spec2Model ----
(***************************************************************************)
(* Gatekeeper / Trusted Host / Proxy request chain of                      *)
(* Ibr4hima/Cloud-Design-Patterns (src/gatekeeper.py, src/trusted_host.py, *)
(* src/proxy.py).                                                          *)
(*                                                                         *)
(* One service process is analysed at a time (svc); its downstream tier is *)
(* the environment and answers every HTTP call with any outcome the        *)
(* requests library can report.  Handlers of one process run concurrently  *)
(* (Flask's threaded server) and interleave at their blocking HTTP calls;  *)
(* a CircuitBreaker method and a _check_rate_limit call run as one step.   *)
(* Time is the value of time.time(), in seconds.                           *)
(***************************************************************************)
EXTENDS Integers, Sequences, FiniteSets, TLC

\* ------------------------------------------------------------- bounds
\* seconds the clock advances in one step of the clock
Tick == 30
\* value of time.time() when the service starts (any value above 60)
StartTime == 100
\* number of clock steps in a run
MaxTicks == 3
\* cap of CircuitBreaker.failures (the counter is unbounded in the code)
MaxFailures == 6
\* RATE_LIMIT of the Gatekeeper (1000) and of the Trusted Host (2000), scaled down
LimitGK == 1
LimitTH == 2
\* number of _check_rate_limit calls in a run of the limiter called on its own
MaxChecks == 4
\* number of requests one service handles at the same time
NumHandlers == 2
\* number of requests one service receives in a run
MaxRequests == 3

\* --------------------------------------------------- program constants
threshold == 5
timeout == 60
RATE_WINDOW == 60
retry_attempts == 3
health_check_interval == 60

Services == {"gatekeeper", "trusted_host"}
\* request.remote_addr of the callers
Clients == {"c1", "c2"}
\* the caller of the requests handled in parallel
Callers == {"c1"}
Times == {StartTime + k * Tick : k \in 0..MaxTicks}
EndTime == StartTime + MaxTicks * Tick

\* ------------------------------------------------------ CircuitBreaker
\* CircuitBreaker.__init__
CircuitBreaker == [failures |-> 0, last_failure_time |-> 0, state |-> "closed"]

\* mutant: the breaker opens only above the threshold
record_failure_gt(b, t) ==
    [failures |-> b.failures + 1,
     last_failure_time |-> t,
     state |-> IF b.failures + 1 > threshold THEN "open" ELSE b.state]

\* mutant: only a closed breaker is opened by a failure
record_failure_closed_only(b, t) ==
    [failures |-> b.failures + 1,
     last_failure_time |-> t,
     state |-> IF b.failures + 1 >= threshold /\ b.state = "closed" THEN "open" ELSE b.state]

\* CircuitBreaker.record_failure, called at time t
record_failure(b, t) ==
    [failures |-> b.failures + 1,
     last_failure_time |-> t,
     state |-> IF b.failures + 1 >= threshold THEN "open" ELSE b.state]

\* mutant: a success closes the breaker and keeps the failure count
record_success_keep(b) ==
    [b EXCEPT !.state = "closed"]

\* mutant: a success resets the failure count and leaves the state
record_success_count_only(b) ==
    [b EXCEPT !.failures = 0]

\* CircuitBreaker.record_success
record_success(b) ==
    [b EXCEPT !.failures = 0, !.state = "closed"]

\* mutant: the timeout test is >= instead of >
can_execute_ge(b, t) ==
    IF b.state = "open"
    THEN IF t - b.last_failure_time >= timeout
         THEN [ret |-> TRUE, cb |-> [b EXCEPT !.state = "half-open"]]
         ELSE [ret |-> FALSE, cb |-> b]
    ELSE [ret |-> TRUE, cb |-> b]

\* mutant: a half-open breaker admits no further call (single-flight gate)
can_execute_single(b, t) ==
    IF b.state = "open"
    THEN IF t - b.last_failure_time > timeout
         THEN [ret |-> TRUE, cb |-> [b EXCEPT !.state = "half-open"]]
         ELSE [ret |-> FALSE, cb |-> b]
    ELSE IF b.state = "half-open" THEN [ret |-> FALSE, cb |-> b]
    ELSE [ret |-> TRUE, cb |-> b]

\* CircuitBreaker.can_execute, called at time t: the value returned and the
\* breaker it leaves
can_execute(b, t) ==
    IF b.state = "open"
    THEN IF t - b.last_failure_time > timeout
         THEN [ret |-> TRUE, cb |-> [b EXCEPT !.state = "half-open"]]
         ELSE [ret |-> FALSE, cb |-> b]
    ELSE [ret |-> TRUE, cb |-> b]

\* -------------------------------------------------------- rate limiter
\* RATE_LIMIT of service s
RATE_LIMIT(s) == IF s = "gatekeeper" THEN LimitGK ELSE LimitTH

\* [t for t in request_counts[client_ip] if current_time - t < RATE_WINDOW]
RECURSIVE Prune(_, _)
Prune(list, t) ==
    IF list = <<>> THEN <<>>
    ELSE IF t - Head(list) < RATE_WINDOW
         THEN <<Head(list)>> \o Prune(Tail(list), t)
         ELSE Prune(Tail(list), t)

\* mutant: an entry aged exactly RATE_WINDOW is kept
RECURSIVE PruneLe(_, _)
PruneLe(list, t) ==
    IF list = <<>> THEN <<>>
    ELSE IF t - Head(list) <= RATE_WINDOW
         THEN <<Head(list)>> \o PruneLe(Tail(list), t)
         ELSE PruneLe(Tail(list), t)

\* mutant: the request is allowed only below the limit
check_rate_limit_lt(list, t, limit) ==
    [counts |-> Append(Prune(list, t), t),
     ret |-> Len(Append(Prune(list, t), t)) < limit]

\* mutant: the window is pruned with <=
check_rate_limit_le(list, t, limit) ==
    [counts |-> Append(PruneLe(list, t), t),
     ret |-> Len(Append(PruneLe(list, t), t)) <= limit]

\* mutant: the timestamp of a denied request is not kept
check_rate_limit_allowed_only(list, t, limit) ==
    [counts |-> IF Len(Prune(list, t)) + 1 <= limit
                THEN Append(Prune(list, t), t)
                ELSE Prune(list, t),
     ret |-> Len(Prune(list, t)) + 1 <= limit]

\* _check_rate_limit on the client's list at time t: the list it stores and the
\* value it returns
check_rate_limit(list, t, limit) ==
    [counts |-> Append(Prune(list, t), t),
     ret |-> Len(Append(Prune(list, t), t)) <= limit]

\* ------------------------------------------------------ QueryValidator
\* A query is a sequence of one-character strings.
LowerCase == <<"a", "b", "c", "d", "e", "f", "g", "h", "i", "j", "k", "l", "m", "n", "o", "p", "q", "r", "s", "t", "u", "v", "w", "x", "y", "z">>
UpperCase == <<"A", "B", "C", "D", "E", "F", "G", "H", "I", "J", "K", "L", "M", "N", "O", "P", "Q", "R", "S", "T", "U", "V", "W", "X", "Y", "Z">>
Digits == {"0", "1", "2", "3", "4", "5", "6", "7", "8", "9"}

\* QueryValidator.dangerous_keywords
dangerous_keywords == <<
    [name |-> "DROP", text |-> <<"D", "R", "O", "P">>],
    [name |-> "DELETE", text |-> <<"D", "E", "L", "E", "T", "E">>],
    [name |-> "TRUNCATE", text |-> <<"T", "R", "U", "N", "C", "A", "T", "E">>],
    [name |-> "ALTER", text |-> <<"A", "L", "T", "E", "R">>],
    [name |-> "RENAME", text |-> <<"R", "E", "N", "A", "M", "E">>],
    [name |-> "MODIFY", text |-> <<"M", "O", "D", "I", "F", "Y">>],
    [name |-> "SHUTDOWN", text |-> <<"S", "H", "U", "T", "D", "O", "W", "N">>],
    [name |-> "GRANT", text |-> <<"G", "R", "A", "N", "T">>],
    [name |-> "REVOKE", text |-> <<"R", "E", "V", "O", "K", "E">>],
    [name |-> "ROLE", text |-> <<"R", "O", "L", "E">>],
    [name |-> "BACKUP", text |-> <<"B", "A", "C", "K", "U", "P">>],
    [name |-> "RESTORE", text |-> <<"R", "E", "S", "T", "O", "R", "E">>],
    [name |-> "CREATE TABLE", text |-> <<"C", "R", "E", "A", "T", "E", " ", "T", "A", "B", "L", "E">>]
>>

\* QueryValidator.valid_commands
valid_commands == <<
    [name |-> "SELECT", text |-> <<"S", "E", "L", "E", "C", "T">>],
    [name |-> "INSERT", text |-> <<"I", "N", "S", "E", "R", "T">>],
    [name |-> "UPDATE", text |-> <<"U", "P", "D", "A", "T", "E">>],
    [name |-> "CREATE", text |-> <<"C", "R", "E", "A", "T", "E">>],
    [name |-> "SHOW", text |-> <<"S", "H", "O", "W">>],
    [name |-> "DESCRIBE", text |-> <<"D", "E", "S", "C", "R", "I", "B", "E">>],
    [name |-> "EXPLAIN", text |-> <<"E", "X", "P", "L", "A", "I", "N">>],
    [name |-> "USE", text |-> <<"U", "S", "E">>]
>>

\* QueryValidator.injection_patterns
injection_patterns == <<
    [name |-> "--", text |-> <<"-", "-">>],
    [name |-> ";", text |-> <<";">>],
    [name |-> "/*", text |-> <<"/", "*">>],
    [name |-> "*/", text |-> <<"*", "/">>],
    [name |-> "@@", text |-> <<"@", "@">>],
    [name |-> "@", text |-> <<"@">>],
    [name |-> "UNION", text |-> <<"U", "N", "I", "O", "N">>],
    [name |-> "SLEEP", text |-> <<"S", "L", "E", "E", "P">>],
    [name |-> "WAITFOR", text |-> <<"W", "A", "I", "T", "F", "O", "R">>],
    [name |-> "DELAY", text |-> <<"D", "E", "L", "A", "Y">>],
    [name |-> "IF(", text |-> <<"I", "F", "(">>],
    [name |-> "WHEN", text |-> <<"W", "H", "E", "N">>]
>>

\* literals of QueryValidator.common_attacks
TxtOR == <<"O", "R">>
TxtINFORMATION_SCHEMA == <<"I", "N", "F", "O", "R", "M", "A", "T", "I", "O", "N", "_", "S", "C", "H", "E", "M", "A", ".">>
TxtSYS == <<"S", "Y", "S", ".">>
TxtEXEC == <<"E", "X", "E", "C">>
TxtXP == <<"X", "P", "_">>
TxtDashDash == <<"-", "-">>
TxtSlashStar == <<"/", "*">>

\* the limit of "len(query) > 5000"
MaxQueryLength == 5000

\* str.upper() on one character
upper_char(c) ==
    IF \E i \in 1..26 : LowerCase[i] = c
    THEN UpperCase[CHOOSE i \in 1..26 : LowerCase[i] = c]
    ELSE c

\* str.upper()
upper(s) == [i \in 1..Len(s) |-> upper_char(s[i])]

\* str.replace("\n", " ")
replace_newline(s) == [i \in 1..Len(s) |-> IF s[i] = "\n" THEN " " ELSE s[i]]

\* whitespace of str.strip() and of the regular expressions' \s
IsSpace(c) == c \in {" ", "\t", "\n", "\r"}

\* str.strip()
RECURSIVE lstrip(_)
lstrip(s) == IF s # <<>> /\ IsSpace(Head(s)) THEN lstrip(Tail(s)) ELSE s
RECURSIVE rstrip(_)
rstrip(s) ==
    IF s # <<>> /\ IsSpace(s[Len(s)]) THEN rstrip(SubSeq(s, 1, Len(s) - 1)) ELSE s
strip(s) == rstrip(lstrip(s))

\* p in s, for a non-empty p
Contains(s, p) ==
    \E i \in 1..(Len(s) - Len(p) + 1) : SubSeq(s, i, i + Len(p) - 1) = p

\* s.startswith(p)
StartsWith(s, p) == Len(s) >= Len(p) /\ SubSeq(s, 1, Len(p)) = p

\* the regular expressions' \w
IsWordChar(c) ==
    \/ \E i \in 1..26 : LowerCase[i] = c \/ UpperCase[i] = c
    \/ c \in Digits
    \/ c = "_"

\* the regular expressions' \b just before position i of s (i in 1..Len(s)+1)
WordBoundary(s, i) ==
    (i > 1 /\ IsWordChar(s[i - 1])) # (i <= Len(s) /\ IsWordChar(s[i]))

\* p occurs in s at position i
At(s, i, p) == i >= 1 /\ i + Len(p) - 1 <= Len(s) /\ SubSeq(s, i, i + Len(p) - 1) = p

\* re.search(rf'\b{keyword}\b', s)
SearchWord(s, kw) ==
    \E i \in 1..(Len(s) - Len(kw) + 1) :
        At(s, i, kw) /\ WordBoundary(s, i) /\ WordBoundary(s, i + Len(kw))

\* the first position from i on that holds no whitespace (Len(s)+1 when none)
RECURSIVE SkipSpace(_, _)
SkipSpace(s, i) == IF i <= Len(s) /\ IsSpace(s[i]) THEN SkipSpace(s, i + 1) ELSE i

IsQuote(c) == c \in {"'", "\""}

\* re.search(r'\bOR\s+1\s*=\s*1\b', s)
SearchOrOneEqualsOne(s) ==
    \E i \in 1..Len(s) :
        /\ At(s, i, TxtOR) /\ WordBoundary(s, i)
        /\ i + 2 <= Len(s) /\ IsSpace(s[i + 2])
        /\ LET a == SkipSpace(s, i + 2)
               b == SkipSpace(s, a + 1)
               c == SkipSpace(s, b + 1)
           IN /\ a <= Len(s) /\ s[a] = "1"
              /\ b <= Len(s) /\ s[b] = "="
              /\ c <= Len(s) /\ s[c] = "1"
              /\ WordBoundary(s, c + 1)

\* re.search(r'\bOR\s+[\'"].*[\'"]=[\'"].*[\'"]\b', s)
SearchOrQuoted(s) ==
    \E i \in 1..Len(s) :
        /\ At(s, i, TxtOR) /\ WordBoundary(s, i)
        /\ i + 2 <= Len(s) /\ IsSpace(s[i + 2])
        /\ LET a == SkipSpace(s, i + 2)
           IN /\ a <= Len(s) /\ IsQuote(s[a])
              /\ \E k \in (a + 1)..Len(s) : \E m \in (k + 3)..Len(s) :
                    /\ IsQuote(s[k]) /\ s[k + 1] = "=" /\ IsQuote(s[k + 2])
                    /\ IsQuote(s[m]) /\ WordBoundary(s, m + 1)
                    /\ \A j \in (a + 1)..(m - 1) : s[j] # "\n"

\* re.search(r'(?i)(?:INFORMATION_SCHEMA|SYS)\.', s)
SearchSchema(s) ==
    Contains(upper(s), TxtINFORMATION_SCHEMA) \/ Contains(upper(s), TxtSYS)

\* re.search(r'\bEXEC\b|\bXP_\w+\b', s)
SearchExec(s) ==
    \/ SearchWord(s, TxtEXEC)
    \/ \E i \in 1..Len(s) :
          /\ At(s, i, TxtXP) /\ WordBoundary(s, i)
          /\ i + 3 <= Len(s) /\ IsWordChar(s[i + 3])

\* the first entry of list whose text satisfies Hit (0 when none)
FirstHit(list, Hit(_)) ==
    IF \E i \in 1..Len(list) : Hit(list[i].text)
    THEN CHOOSE i \in 1..Len(list) :
            Hit(list[i].text) /\ \A j \in 1..(i - 1) : ~Hit(list[j].text)
    ELSE 0

\* (True, None) and (False, message): the message as text and the word put into it
Valid == [ok |-> TRUE, reason |-> <<"None", "">>]
Invalid(message, word) == [ok |-> FALSE, reason |-> <<message, word>>]

\* a validator that looks at no semicolon: neither the check for multiple
\* statements nor the signature ";"
validate_query_chained(query) ==
    LET query_upper == strip(replace_newline(upper(query)))
        kw == FirstHit(dangerous_keywords, LAMBDA w : SearchWord(query_upper, w))
        pat == FirstHit(injection_patterns,
                        LAMBDA w : w # <<";">> /\ Contains(query_upper, w))
    IN  IF query = <<>> THEN Invalid("Empty query", "")
        ELSE IF Len(query) > MaxQueryLength THEN Invalid("Query exceeds maximum length", "")
        ELSE IF Contains(query, TxtDashDash) \/ Contains(query, TxtSlashStar)
             THEN Invalid("Comments are not allowed in queries", "")
        ELSE IF kw # 0
             THEN Invalid("Query contains forbidden keyword: ", dangerous_keywords[kw].name)
        ELSE IF ~\E i \in 1..Len(valid_commands) : StartsWith(query_upper, valid_commands[i].text)
             THEN Invalid("Query must start with a valid SQL command", "")
        ELSE IF pat # 0
             THEN Invalid("Query contains suspicious pattern: ", injection_patterns[pat].name)
        ELSE IF \/ SearchOrOneEqualsOne(query_upper) \/ SearchOrQuoted(query_upper)
                \/ SearchSchema(query_upper) \/ SearchExec(query_upper)
             THEN Invalid("Query contains suspicious pattern", "")
        ELSE Valid

\* a validator that checks the verb before the forbidden keywords
validate_query_verb_first(query) ==
    LET query_upper == strip(replace_newline(upper(query)))
        kw == FirstHit(dangerous_keywords, LAMBDA w : SearchWord(query_upper, w))
        pat == FirstHit(injection_patterns, LAMBDA w : Contains(query_upper, w))
    IN  IF query = <<>> THEN Invalid("Empty query", "")
        ELSE IF Len(query) > MaxQueryLength THEN Invalid("Query exceeds maximum length", "")
        ELSE IF \E i \in 1..(Len(query) - 1) : query[i] = ";"
             THEN Invalid("Multiple statements are not allowed", "")
        ELSE IF Contains(query, TxtDashDash) \/ Contains(query, TxtSlashStar)
             THEN Invalid("Comments are not allowed in queries", "")
        ELSE IF ~\E i \in 1..Len(valid_commands) : StartsWith(query_upper, valid_commands[i].text)
             THEN Invalid("Query must start with a valid SQL command", "")
        ELSE IF kw # 0
             THEN Invalid("Query contains forbidden keyword: ", dangerous_keywords[kw].name)
        ELSE IF pat # 0
             THEN Invalid("Query contains suspicious pattern: ", injection_patterns[pat].name)
        ELSE IF \/ SearchOrOneEqualsOne(query_upper) \/ SearchOrQuoted(query_upper)
                \/ SearchSchema(query_upper) \/ SearchExec(query_upper)
             THEN Invalid("Query contains suspicious pattern", "")
        ELSE Valid

\* QueryValidator.validate_query: (is_valid, error_message)
validate_query(query) ==
    LET query_upper == strip(replace_newline(upper(query)))
        kw == FirstHit(dangerous_keywords, LAMBDA w : SearchWord(query_upper, w))
        pat == FirstHit(injection_patterns, LAMBDA w : Contains(query_upper, w))
    IN  IF query = <<>> THEN Invalid("Empty query", "")
        ELSE IF Len(query) > MaxQueryLength THEN Invalid("Query exceeds maximum length", "")
        ELSE IF \E i \in 1..(Len(query) - 1) : query[i] = ";"
             THEN Invalid("Multiple statements are not allowed", "")
        ELSE IF Contains(query, TxtDashDash) \/ Contains(query, TxtSlashStar)
             THEN Invalid("Comments are not allowed in queries", "")
        ELSE IF kw # 0
             THEN Invalid("Query contains forbidden keyword: ", dangerous_keywords[kw].name)
        ELSE IF ~\E i \in 1..Len(valid_commands) : StartsWith(query_upper, valid_commands[i].text)
             THEN Invalid("Query must start with a valid SQL command", "")
        ELSE IF pat # 0
             THEN Invalid("Query contains suspicious pattern: ", injection_patterns[pat].name)
        ELSE IF \/ SearchOrOneEqualsOne(query_upper) \/ SearchOrQuoted(query_upper)
                \/ SearchSchema(query_upper) \/ SearchExec(query_upper)
             THEN Invalid("Query contains suspicious pattern", "")
        ELSE Valid

\* the queries clients send
QSelect == <<"S", "E", "L", "E", "C", "T", " ", "*", " ", "F", "R", "O", "M", " ", "a", "c", "t", "o", "r", " ", "W", "H", "E", "R", "E", " ", "a", "c", "t", "o", "r", "_", "i", "d", " ", "=", " ", "1">>
QDrop == <<"D", "R", "O", "P", " ", "T", "A", "B", "L", "E", " ", "a", "c", "t", "o", "r">>
QEmpty == <<>>
Queries == <<QSelect, QDrop, QEmpty>>
\* validate_query on each of them
Verdict == [i \in 1..Len(Queries) |-> validate_query(Queries[i])]


\* ------------------------------------------------- requests and responses
\* STRATEGY_PORTS
STRATEGY_PORTS == [direct |-> 3306, random |-> 3307, customized |-> 3308]
Strategies == DOMAIN STRATEGY_PORTS
\* the names clients put into GET /set_strategy/<strategy>
StrategyNames == {"random", "fastest"}

\* request bodies: no JSON object, an object without 'query', a body that is
\* not JSON (request.json raises), an object above 1 MB, an object with a query
Body(kind, q) == [kind |-> kind, q |-> q]
NoBody == Body("none", 0)
Bodies == {Body(k, 0) : k \in {"none", "noquery", "unparsable"}}
            \cup {Body("query", q) : q \in 1..Len(Queries)} \cup {Body("toolarge", 1)}
\* the bodies the Trusted Host receives (it does not read the query)
BodiesTH == {Body(k, 0) : k \in {"none", "noquery", "unparsable"}} \cup {Body("query", 1)}

\* JSON envelopes
Error(message, word) == [status |-> "error", message |-> <<message, word>>]
NoResp == [status |-> "none", message |-> <<"", "">>]
\* what the downstream tier answers with a 2xx status and a JSON body
DownstreamReplies == {[status |-> "success", message |-> <<"result", "">>],
                      [status |-> "error", message |-> <<"downstream error", "">>]}
\* what one HTTP call returns or raises: a 2xx JSON reply, a 2xx reply that is
\* not JSON (response.json() raises JSONDecodeError, a RequestException),
\* requests.exceptions.Timeout, ConnectionError, HTTPError (raise_for_status)
Failures == {"timeout", "connection", "http"}
Outcomes == {"ok", "nonjson"} \cup Failures

\* a handler thread: pc is its position ("idle": waiting for a request,
\* "probe" and "forward": in the HTTP call of the health probe or of a forward
\* attempt; "rl_store", "rl_append", "rl_len": before that statement of
\* _check_rate_limit), ep the endpoint, attempt the loop index, t0 the
\* current_time of _check_proxy_health or of _check_rate_limit, client the
\* client_ip and tmp the list the comprehension of _check_rate_limit built;
\* calls is history (the forward calls made so far)
Idle == [pc |-> "idle", ep |-> "none", body |-> NoBody, name |-> "none",
         attempt |-> 0, t0 |-> 0, calls |-> 0, client |-> "none", tmp |-> <<>>]

\* history: the response of a request that ends before its first HTTP call
Screening(ep, body, name, end, resp) ==
    [ep |-> ep, body |-> body, name |-> name, end |-> end, resp |-> resp, calls |-> 0,
     got |-> NoResp]

NoResponse == Screening("none", NoBody, "none", "none", NoResp)

\* the result of the code that runs before a handler's first HTTP call: the
\* breaker and the client's window it leaves, where it ends ("forward" and
\* "probe": at an HTTP call) and the response it returns
Screened(b, counts, end, resp) == [cb |-> b, counts |-> counts, end |-> end, resp |-> resp]

\* mutant: the query is forwarded without validation
GkScreenNoValidation(b, list, t, body) ==
    LET gate == can_execute(b, t)
        rl == check_rate_limit(list, t, RATE_LIMIT("gatekeeper"))
    IN  IF ~gate.ret
        THEN Screened(gate.cb, list, "breaker", Error("Service temporarily unavailable", ""))
        ELSE IF ~rl.ret
        THEN Screened(gate.cb, rl.counts, "rate", Error("Rate limit exceeded", ""))
        ELSE IF body.kind \in {"none", "noquery"}
        THEN Screened(gate.cb, rl.counts, "format",
                      Error("Invalid request format. Must include 'query' field.", ""))
        ELSE IF body.kind = "toolarge"
        THEN Screened(gate.cb, rl.counts, "size", Error("Request too large", ""))
        ELSE Screened(gate.cb, rl.counts, "forward", NoResp)

\* mutant: the rate limit is checked before the breaker
GkScreenRateFirst(b, list, t, body) ==
    LET gate == can_execute(b, t)
        rl == check_rate_limit(list, t, RATE_LIMIT("gatekeeper"))
    IN  IF ~rl.ret
        THEN Screened(b, rl.counts, "rate", Error("Rate limit exceeded", ""))
        ELSE IF ~gate.ret
        THEN Screened(gate.cb, rl.counts, "breaker", Error("Service temporarily unavailable", ""))
        ELSE IF body.kind \in {"none", "noquery"}
        THEN Screened(gate.cb, rl.counts, "format",
                      Error("Invalid request format. Must include 'query' field.", ""))
        ELSE IF body.kind = "toolarge"
        THEN Screened(gate.cb, rl.counts, "size", Error("Request too large", ""))
        ELSE IF ~Verdict[body.q].ok
        THEN Screened(gate.cb, rl.counts, "invalid",
                      [status |-> "error", message |-> Verdict[body.q].reason])
        ELSE Screened(gate.cb, rl.counts, "forward", NoResp)

\* mutant: a query the validator rejects counts as a failure of the breaker
GkScreenCountsRejection(b, list, t, body) ==
    LET gate == can_execute(b, t)
        rl == check_rate_limit(list, t, RATE_LIMIT("gatekeeper"))
    IN  IF ~gate.ret
        THEN Screened(gate.cb, list, "breaker", Error("Service temporarily unavailable", ""))
        ELSE IF ~rl.ret
        THEN Screened(gate.cb, rl.counts, "rate", Error("Rate limit exceeded", ""))
        ELSE IF body.kind \in {"none", "noquery"}
        THEN Screened(gate.cb, rl.counts, "format",
                      Error("Invalid request format. Must include 'query' field.", ""))
        ELSE IF body.kind = "toolarge"
        THEN Screened(gate.cb, rl.counts, "size", Error("Request too large", ""))
        ELSE IF ~Verdict[body.q].ok
        THEN Screened(record_failure(gate.cb, t), rl.counts, "invalid",
                      [status |-> "error", message |-> Verdict[body.q].reason])
        ELSE Screened(gate.cb, rl.counts, "forward", NoResp)

\* GatekeeperService.process_request up to its first HTTP call: breaker, rate
\* limit, request format, size, query validation
GkScreen(b, list, t, body) ==
    LET gate == can_execute(b, t)
        rl == check_rate_limit(list, t, RATE_LIMIT("gatekeeper"))
    IN  IF ~gate.ret
        THEN Screened(gate.cb, list, "breaker", Error("Service temporarily unavailable", ""))
        ELSE IF ~rl.ret
        THEN Screened(gate.cb, rl.counts, "rate", Error("Rate limit exceeded", ""))
        ELSE IF body.kind \in {"none", "noquery"}
        THEN Screened(gate.cb, rl.counts, "format",
                      Error("Invalid request format. Must include 'query' field.", ""))
        ELSE IF body.kind = "toolarge"
        THEN Screened(gate.cb, rl.counts, "size", Error("Request too large", ""))
        ELSE IF ~Verdict[body.q].ok
        THEN Screened(gate.cb, rl.counts, "invalid",
                      [status |-> "error", message |-> Verdict[body.q].reason])
        ELSE Screened(gate.cb, rl.counts, "forward", NoResp)

\* mutant: the health probe is made before the breaker is consulted
ThScreenProbeFirst(b, list, t, body, checked) ==
    LET gate == can_execute(b, t)
        rl == check_rate_limit(list, t, RATE_LIMIT("trusted_host"))
    IN  IF ~rl.ret
        THEN Screened(b, rl.counts, "rate", Error("Rate limit exceeded", ""))
        ELSE IF body.kind = "unparsable"
        THEN Screened(b, rl.counts, "unparsable", Error("Internal server error", ""))
        ELSE IF ~(t - checked < health_check_interval)
        THEN Screened(b, rl.counts, "probe", NoResp)
        ELSE IF ~gate.ret
        THEN Screened(gate.cb, rl.counts, "breaker",
                      Error("Service temporarily unavailable", ""))
        ELSE IF body.kind \in {"none", "noquery"}
        THEN Screened(gate.cb, rl.counts, "format",
                      Error("Invalid request format. Must include 'query' field.", ""))
        ELSE Screened(gate.cb, rl.counts, "forward", NoResp)

\* handle_query of the Trusted Host and TrustedHostService.forward_request up
\* to the first HTTP call: rate limit, request.json, breaker, request format,
\* cached health of the Proxy (checked: last_proxy_health_check)
ThScreen(b, list, t, body, checked) ==
    LET gate == can_execute(b, t)
        rl == check_rate_limit(list, t, RATE_LIMIT("trusted_host"))
    IN  IF ~rl.ret
        THEN Screened(b, rl.counts, "rate", Error("Rate limit exceeded", ""))
        ELSE IF body.kind = "unparsable"
        THEN Screened(b, rl.counts, "unparsable", Error("Internal server error", ""))
        ELSE IF ~gate.ret
        THEN Screened(gate.cb, rl.counts, "breaker",
                      Error("Service temporarily unavailable", ""))
        ELSE IF body.kind \in {"none", "noquery"}
        THEN Screened(gate.cb, rl.counts, "format",
                      Error("Invalid request format. Must include 'query' field.", ""))
        ELSE IF t - checked < health_check_interval
        THEN Screened(gate.cb, rl.counts, "forward", NoResp)
        ELSE Screened(gate.cb, rl.counts, "probe", NoResp)

\* TrustedHostService.set_strategy up to its first HTTP call: strategy name,
\* breaker
ThSetScreen(b, t, name) ==
    LET gate == can_execute(b, t)
    IN  IF name \notin Strategies
        THEN Screened(b, <<>>, "badname",
                      Error("Invalid strategy. Must be one of: ", "direct, random, customized"))
        ELSE IF ~gate.ret
        THEN Screened(gate.cb, <<>>, "breaker",
                      Error("Service temporarily unavailable", ""))
        ELSE Screened(gate.cb, <<>>, "forward", NoResp)

\* mutant: the exception of the last attempt leaves the handler
RaisedUnhandled(s, ep, outcome) == [fault |-> <<"500 Internal Server Error", outcome>>]

\* the error envelope of the except clauses around the retry loop, for the
\* exception the last attempt raised
Raised(s, ep, outcome) ==
    IF ep = "set_strategy" THEN Error("Failed to set strategy: ", outcome)
    ELSE IF outcome = "timeout" THEN Error("Request timed out", "")
    ELSE IF outcome = "connection"
         THEN IF s = "gatekeeper" THEN Error("Connection to internal service failed", "")
              ELSE Error("Connection to Proxy failed", "")
    ELSE Error("Internal server error", "")

\* mutant: the downstream envelope is answered as a success
AnswerAsSuccess(s, ep, next, outcome, reply) ==
    IF next = "return" THEN [reply EXCEPT !.status = "success"]
    ELSE Raised(s, ep, outcome)

\* what a retry loop that has ended answers: "return response.json()", the
\* JSON body of the downstream reply, or the envelope of the except clause
Answer(s, ep, next, outcome, reply) ==
    IF next = "return" THEN reply
    ELSE Raised(s, ep, outcome)

\* mutant: every failed attempt is recorded as a breaker failure
AfterAttemptEachFailure(b, t, attempt, outcome) ==
    LET b1 == IF outcome \in {"ok", "nonjson"} THEN record_success(b) ELSE b
        ops == IF outcome \in {"ok", "nonjson"} THEN <<"record_success">> ELSE <<>>
    IN  IF outcome = "ok" THEN [cb |-> b1, ops |-> ops, next |-> "return"]
        ELSE IF attempt = retry_attempts - 1
             THEN [cb |-> record_failure(b1, t), ops |-> Append(ops, "record_failure"),
                   next |-> "raise"]
             ELSE [cb |-> record_failure(b1, t), ops |-> Append(ops, "record_failure"),
                   next |-> "retry"]

\* mutant: the loop makes a fourth call
AfterAttemptFourth(b, t, attempt, outcome) ==
    LET b1 == IF outcome \in {"ok", "nonjson"} THEN record_success(b) ELSE b
        ops == IF outcome \in {"ok", "nonjson"} THEN <<"record_success">> ELSE <<>>
    IN  IF outcome = "ok" THEN [cb |-> b1, ops |-> ops, next |-> "return"]
        ELSE IF attempt = retry_attempts
             THEN [cb |-> record_failure(b1, t), ops |-> Append(ops, "record_failure"),
                   next |-> "raise"]
             ELSE [cb |-> b1, ops |-> ops, next |-> "retry"]

\* one pass of the retry loop "for attempt in range(3)" once the HTTP call of
\* that attempt has ended with outcome: the breaker it leaves, the breaker
\* methods it called (ops, in call order) and what the loop does next
AfterAttempt(b, t, attempt, outcome) ==
    LET b1 == IF outcome \in {"ok", "nonjson"} THEN record_success(b) ELSE b
        ops == IF outcome \in {"ok", "nonjson"} THEN <<"record_success">> ELSE <<>>
    IN  IF outcome = "ok" THEN [cb |-> b1, ops |-> ops, next |-> "return"]
        ELSE IF attempt = retry_attempts - 1
             THEN [cb |-> record_failure(b1, t), ops |-> Append(ops, "record_failure"),
                   next |-> "raise"]
             ELSE [cb |-> b1, ops |-> ops, next |-> "retry"]

\* ------------------------------------------------------------ the Proxy
\* ProxyManager.manager_host and the worker lists the Proxy is started with
\* (a node may be manager and worker at once)
manager_host == "manager"
Topologies == {<<"worker1", "worker2">>, <<"manager", "worker1">>}

\* ProxyManager.strategy_ports
strategy_ports == [direct |-> 3306, random |-> 3307, customized |-> 3308]
\* the port of _get_connection when no strategy is passed or it is not in the table
DefaultPort == 3306

\* _get_connection: the port for the strategy argument ("None": not passed)
get_port(strategy) ==
    IF strategy = "None" THEN DefaultPort
    ELSE IF strategy \in DOMAIN strategy_ports THEN strategy_ports[strategy]
    ELSE DefaultPort

\* the queries the Proxy receives
QInsert == <<"I", "N", "S", "E", "R", "T", " ", "I", "N", "T", "O", " ", "a", "c", "t", "o", "r", " ", "(", "f", "i", "r", "s", "t", "_", "n", "a", "m", "e", ")", " ", "V", "A", "L", "U", "E", "S", " ", "(", "'", "B", "'", ")">>
\* a write in lower case, a SELECT of a column whose name holds a write word
QLowerInsert == <<"i", "n", "s", "e", "r", "t", " ", "i", "n", "t", "o", " ", "a", "c", "t", "o", "r", " ", "(", "f", "i", "r", "s", "t", "_", "n", "a", "m", "e", ")", " ", "v", "a", "l", "u", "e", "s", " ", "(", "'", "b", "'", ")">>
QLastUpdate == <<"S", "E", "L", "E", "C", "T", " ", "l", "a", "s", "t", "_", "u", "p", "d", "a", "t", "e", " ", "F", "R", "O", "M", " ", "a", "c", "t", "o", "r">>
ProxyQueries == <<QSelect, QInsert, QLowerInsert, QLastUpdate>>
\* the words of query_handler's write test
WriteWords == {<<"I", "N", "S", "E", "R", "T">>, <<"U", "P", "D", "A", "T", "E">>,
               <<"D", "E", "L", "E", "T", "E">>, <<"C", "R", "E", "A", "T", "E">>,
               <<"D", "R", "O", "P">>, <<"A", "L", "T", "E", "R">>}
\* a write test that compares the text as it was sent
is_write_as_sent(query) == \E word \in WriteWords : Contains(query, word)
\* query_handler: any(word in query.upper() for word in [...])
is_write(query) == \E word \in WriteWords : Contains(upper(query), word)
IsWrite == [i \in 1..Len(ProxyQueries) |-> is_write(ProxyQueries[i])]

\* one probe connection of _get_fastest_worker: whether it connected and the
\* time it took; the measured times
Latencies == {1, 2}
Probe(connected, latency) == [connected |-> connected, latency |-> latency]
ProbeOutcomes == {Probe(TRUE, l) : l \in Latencies} \cup {Probe(FALSE, 0)}
\* response_times[a] < response_times[b], a failed probe counting float('inf')
Faster(a, b) == a.connected /\ (~b.connected \/ a.latency < b.latency)

\* mutant: a failed probe is given the time 0 instead of float('inf')
get_fastest_worker_zero(workers, probes) ==
    IF \A i \in 1..Len(workers) : ~probes[i].connected
    THEN workers[1]
    ELSE workers[CHOOSE i \in 1..Len(workers) :
                    /\ \A j \in 1..Len(workers) : probes[i].latency <= probes[j].latency
                    /\ \A j \in 1..(i - 1) : probes[i].latency < probes[j].latency]

\* _get_fastest_worker, probes[i] being the probe of workers[i]: min() returns
\* the first worker no other worker is faster than
get_fastest_worker(workers, probes) ==
    IF \A i \in 1..Len(workers) : ~probes[i].connected
    THEN workers[1]
    ELSE workers[CHOOSE i \in 1..Len(workers) :
                    /\ \A j \in 1..Len(workers) : ~Faster(probes[j], probes[i])
                    /\ \A j \in 1..(i - 1) : Faster(probes[i], probes[j])]

\* mutant: direct reads go to the last worker
select_read_host_last(strategy, workers, probes) ==
    IF strategy = "direct" THEN {workers[Len(workers)]}
    ELSE IF strategy = "random" THEN {workers[i] : i \in 1..Len(workers)}
    ELSE IF strategy = "customized" THEN {get_fastest_worker(workers, probes)}
    ELSE {workers[1]}

\* _select_read_host: the hosts it may return (random.choice returns any worker)
select_read_host(strategy, workers, probes) ==
    IF strategy = "direct" THEN {workers[1]}
    ELSE IF strategy = "random" THEN {workers[i] : i \in 1..Len(workers)}
    ELSE IF strategy = "customized" THEN {get_fastest_worker(workers, probes)}
    ELSE {workers[1]}

\* what one _execute_query call does: returns a success result, returns an
\* error result (no connection, MySQL error, other exception), or raises (an
\* exception of cursor.close() or conn.close() in its finally clause)
ExecOutcomes == {"success", "error", "raise"}
\* the dictionary _execute_query returns on host; host is history
Result(host, outcome) ==
    [status |-> outcome, message |-> IF outcome = "success" THEN "rows" ELSE "MySQL Error",
     host |-> host]
\* the dictionary of route_request's except clause
InternalError == [status |-> "error", message |-> "Internal error in Proxy", host |-> "none"]
NoResult == [status |-> "none", message |-> "", host |-> "none"]

\* the finally clause of _execute_query, "if cursor: cursor.close()" followed
\* by "if conn: conn.close()": the number of connections the call leaves open.
\* When a close call raises, the call ends there with that exception: after
\* cursor.close() raised conn.close() is not called
execute_query_finally(outcome) == IF outcome = "raise" THEN 1 ELSE 0

\* a connection being opened: host, port, and (history) current_strategy then
Exec(host, port, strategy) == [host |-> host, port |-> port, strategy |-> strategy]
NoExec == Exec("none", 0, "none")

\* the Proxy's query handler: pc is its position ("idle"; "call": host
\* selected, _execute_query not yet called; "exec": in _execute_query),
\* stage which call of route_request it is in, target the selected host,
\* pending the connection in use, result the manager's result, next the index
\* of the worker being replicated to, q the query; write, sel (the strategy
\* that selected the host), probes and execs (the executions finished so far,
\* each with the number of connections it left open) are history
PxIdle == [pc |-> "idle", q |-> 0, stage |-> "none", write |-> FALSE, sel |-> "none",
           probes |-> <<>>, target |-> "none", pending |-> NoExec, execs |-> <<>>,
           result |-> NoResult, next |-> 0, ret |-> NoResult]

\* the handler p once its pending execution ended with outcome: execs grows
Executed(p, outcome) ==
    [p EXCEPT !.execs = Append(@, [host |-> p.pending.host, port |-> p.pending.port,
                                   strategy |-> p.pending.strategy, stage |-> p.stage,
                                   q |-> p.q, outcome |-> outcome,
                                   open |-> execute_query_finally(outcome)])]
\* the handler returns ret
Return(p, ret) == [p EXCEPT !.pc = "done", !.pending = NoExec, !.ret = ret]
\* the handler calls _execute_query(host, query) without a strategy, the
\* Proxy's strategy being cur
Call(p, stage, host, cur) ==
    [p EXCEPT !.pc = "exec", !.stage = stage, !.pending = Exec(host, get_port("None"), cur)]

\* route_request, write path, once the manager's execution has ended
after_manager_write(p, outcome, workers, cur) ==
    LET q == Executed(p, outcome)
        result == Result(manager_host, outcome)
    IN  IF outcome = "raise" THEN Return(q, InternalError)
        ELSE IF outcome = "success" /\ Len(workers) >= 1
        THEN Call([q EXCEPT !.result = result, !.next = 1], "replica", workers[1], cur)
        ELSE Return([q EXCEPT !.result = result], result)

\* mutant: an exception of a replication leaves _replicate_to_workers
after_replica_raises(p, outcome, workers, cur) ==
    LET q == Executed(p, outcome)
    IN  IF outcome = "raise" THEN Return(q, InternalError)
        ELSE IF q.next < Len(workers)
        THEN Call([q EXCEPT !.next = @ + 1], "replica", workers[q.next + 1], cur)
        ELSE Return(q, q.result)

\* mutant: the replication stops at the first worker that fails
after_replica_stops(p, outcome, workers, cur) ==
    LET q == Executed(p, outcome)
    IN  IF q.next < Len(workers) /\ outcome = "success"
        THEN Call([q EXCEPT !.next = @ + 1], "replica", workers[q.next + 1], cur)
        ELSE Return(q, q.result)

\* _replicate_to_workers once the execution on worker p.next has ended: the
\* next worker, or route_request returns the manager's result
after_replica(p, outcome, workers, cur) ==
    LET q == Executed(p, outcome)
    IN  IF q.next < Len(workers)
        THEN Call([q EXCEPT !.next = @ + 1], "replica", workers[q.next + 1], cur)
        ELSE Return(q, q.result)

\* mutant: the error of the selected host is returned without a fallback
after_read_no_fallback(p, outcome, cur) ==
    LET q == Executed(p, outcome)
    IN  IF outcome = "raise" THEN Return(q, InternalError)
        ELSE Return(q, Result(p.target, outcome))

\* route_request, read path, once the execution on the selected host has ended
after_read(p, outcome, cur) ==
    LET q == Executed(p, outcome)
    IN  IF outcome = "raise" THEN Return(q, InternalError)
        ELSE IF outcome = "error" /\ p.target # manager_host
        THEN Call(q, "fallback", manager_host, cur)
        ELSE Return(q, Result(p.target, outcome))

\* route_request, read path, once the fallback execution on the manager has ended
after_fallback(p, outcome) ==
    LET q == Executed(p, outcome)
    IN  IF outcome = "raise" THEN Return(q, InternalError)
        ELSE Return(q, Result(manager_host, outcome))

\* route_request once the execution in progress has ended with outcome
route_request(p, outcome, workers, cur) ==
    CASE p.stage = "manager" -> after_manager_write(p, outcome, workers, cur)
      [] p.stage = "replica" -> after_replica(p, outcome, workers, cur)
      [] p.stage = "read" -> after_read(p, outcome, cur)
      [] OTHER -> after_fallback(p, outcome)

\* mutant: the Proxy stores any strategy name
px_set_strategy_any(cur, name) ==
    [strategy |-> name,
     resp |-> [status |-> "success", strategy |-> name, port |-> get_port(name)]]

\* the Proxy's set_strategy: the strategy it leaves and the JSON it returns
px_set_strategy(cur, name) ==
    IF name \in {"direct", "random", "customized"}
    THEN [strategy |-> name,
          resp |-> [status |-> "success", strategy |-> name, port |-> get_port(name)]]
    ELSE [strategy |-> cur,
          resp |-> [status |-> "error", message |-> "Invalid strategy"]]

\* the Proxy's health_check: the JSON it returns
px_health_check == [status |-> "ok"]

\* history: what a step of the Proxy returned, with the handler that returned it
PxSent(ep, name, resp, p) == [ep |-> ep, name |-> name, resp |-> resp, p |-> p]
PxNothing == PxSent("none", "none", NoResult, PxIdle)

\* ------------------------------------------- /set_strategy through the chain
\* the names clients put into GET /set_strategy/<strategy> at any tier
ChainNames == {"direct", "random", "fastest"}

\* GatekeeperService.set_strategy up to its HTTP call: strategy name
GkSetScreen(name) ==
    IF name \notin Strategies
    THEN [end |-> "badname",
          resp |-> Error("Invalid strategy. Must be one of: ", "direct, random, customized")]
    ELSE [end |-> "forward", resp |-> NoResp]

\* GatekeeperService.set_strategy once its HTTP call to the Trusted Host has
\* ended: with a 2xx status and the JSON body reply (outcome "ok"), or with an
\* exception; the current_strategy it leaves and the envelope it returns
gk_set_strategy(cur, name, outcome, reply) ==
    IF outcome = "ok"
    THEN [strategy |-> name, resp |-> reply]
    ELSE [strategy |-> cur, resp |-> Error("Failed to set strategy: ", outcome)]

\* health_check of the Trusted Host: GET /health of the Proxy returns a status
\* code or raises (result); cur and state are current_strategy and the
\* breaker's state, t the time
th_health_check(result, cur, state, t) ==
    [status |-> "ok",
     proxy_status |-> IF result = "200" THEN "healthy" ELSE "unhealthy",
     current_strategy |-> cur,
     current_port |-> STRATEGY_PORTS[cur],
     uptime |-> t - StartTime,
     circuit_breaker_state |-> state]

\* health_check of the Gatekeeper: GET /health of the Trusted Host returns the
\* JSON body reply, or the call or its .json() raises (outcome not "ok")
gk_health_check(outcome, reply, cur, state, t) ==
    IF outcome = "ok"
    THEN [status |-> "ok",
          trusted_host_status |-> reply.status,
          current_strategy |-> cur,
          current_port |-> STRATEGY_PORTS[cur],
          uptime |-> t - StartTime,
          version |-> "1.0",
          circuit_breaker_state |-> state]
    ELSE [status |-> "error", message |-> "Health check failed"]

\* the /set_strategy request under way: pc is its position ("idle": none,
\* "th": the Gatekeeper's HTTP call has not reached the Trusted Host, "proxy":
\* an attempt of the Trusted Host's retry loop is in its HTTP call, "gk": the
\* Trusted Host has answered reply and the Gatekeeper's HTTP call is about to
\* end), tier the tier the client called, name the strategy, attempt the loop
\* index; history: hops (the HTTP calls made for it so far), before (the three
\* tiers' strategies when it arrived), alone (no other change reached the
\* Proxy since it arrived) and okname (the strategy of the last change the
\* Gatekeeper answered with success, no other change made since)
ChIdle == [pc |-> "idle", tier |-> "none", name |-> "none", attempt |-> 0,
           reply |-> NoResp, hops |-> 0, before |-> <<"none", "none", "none">>,
           alone |-> TRUE, okname |-> "none"]

\* history: what a step of the chain returned to the client of tier
ChSent(ep, tier, name, resp, hops, before, after) ==
    [ep |-> ep, tier |-> tier, name |-> name, resp |-> resp, hops |-> hops,
     before |-> before, after |-> after]
ChNothing == ChSent("none", "none", "none", NoResp, 0, <<"none", "none", "none">>, "none")

\* ------------------------------------------ the JSON body that is forwarded
\* A JSON object is a function from its keys; the bodies clients send hold a
\* query and may hold any strategy and port
InStrategies == {"direct", "random", "customized", "fastest"}
InPorts == {3306, 3307, 9999}
InBodies ==
    {[query |-> 1]}
      \cup {[query |-> 1, strategy |-> s] : s \in InStrategies}
      \cup {[query |-> 1, port |-> n] : n \in InPorts}
      \cup {[query |-> 1, strategy |-> s, port |-> n] : s \in InStrategies, n \in InPorts}

\* dict.update
update(d, e) ==
    [k \in DOMAIN d \cup DOMAIN e |-> IF k \in DOMAIN e THEN e[k] ELSE d[k]]

\* GatekeeperService.process_request, "Add strategy information to request":
\* s1 and s2 are what the two reads of self.current_strategy return
gk_enhance(request_data, s1, s2) ==
    update(request_data, [strategy |-> s1, port |-> STRATEGY_PORTS[s2]])

\* TrustedHostService.forward_request, "Extract strategy and port information":
\* cur is self.current_strategy
th_enhance(request_data, cur) ==
    LET strategy == IF "strategy" \in DOMAIN request_data THEN request_data.strategy ELSE cur
        port == IF strategy \in DOMAIN STRATEGY_PORTS
                THEN STRATEGY_PORTS[strategy] ELSE STRATEGY_PORTS["direct"]
    IN  update(request_data, [port |-> port])

\* the request being forwarded: pc is its position ("idle": none, "read": the
\* Gatekeeper has read self.current_strategy once, "sent": the body out is in
\* the HTTP call to the next tier), tier the service handling it, inb the
\* body it received, s1 the strategy the Gatekeeper read first
FwIdle == [pc |-> "idle", tier |-> "none", inb |-> [query |-> 0], s1 |-> "none",
           out |-> [query |-> 0]]

\* ------------------------------------------------- validate_query on its own
\* number of pieces a query given to validate_query is made of
MaxPieces == 3

\* the pieces: no text, verbs in either case, white space, a digit, a letter,
\* a semicolon, a forbidden keyword, signatures, a text one attack regex finds
PEmpty == <<>>
PSelect == <<"S", "E", "L", "E", "C", "T">>
PShow == <<"s", "h", "o", "w">>
PSpace == <<" ">>
POne == <<"1">>
PSemicolon == <<";">>
PDrop == <<"D", "R", "O", "P">>
PDashes == <<"-", "-">>
PUnion == <<"U", "N", "I", "O", "N">>
PLetter == <<"x">>
PNewline == <<"\n">>
PTautology == <<"O", "R", " ", "1", "=", "1">>
PAt == <<"@">>
Pieces == {PEmpty, PSelect, PShow, PSpace, POne, PSemicolon, PDrop, PDashes, PUnion,
           PLetter, PNewline, PTautology, PAt}

\* letters that bring a query of length n to length len
Padding(n, len) == [i \in 1..(len - n) |-> "a"]

\* history: the query given to validate_query, made of n pieces, and the
\* (is_valid, error_message) it returned
Validated(query, n) ==
    [query |-> query, valid |-> validate_query(query).ok,
     reason |-> validate_query(query).reason, n |-> n]
NoQuery == [query |-> <<>>, valid |-> FALSE, reason |-> <<"", "">>, n |-> 0]

VARIABLES
    svc,    \* the service process analysed: its breaker and limiter are cb, ...
    now,    \* time.time()
    cb,     \* the service's CircuitBreaker instance
    last,   \* history: the last CircuitBreaker call, the breaker before it, its result
    trk,    \* history: record_failure calls since the last record_success
            \*          (streak) and the time of the last record_failure (failT)
    request_counts, \* request_counts: client -> list of timestamps (defaultdict(list))
    hist,   \* history: every _check_rate_limit call so far: client, time, result
    hs,     \* the requests being handled: per handler thread, its position and locals
    sent,   \* history: the response the step just taken returned to its caller
    served, \* history: the number of requests received so far
    current_strategy,        \* the service's cached current_strategy
    last_proxy_health_check, \* TrustedHostService.last_proxy_health_check
    probed,        \* history: the time of the last GET /health of _check_proxy_health
    probe_status,  \* history: what the last GET /health that ended found
    worker_hosts,  \* ProxyManager.worker_hosts
    px_strategy,   \* ProxyManager.current_strategy
    px,            \* the query the Proxy is handling: its position and locals
    px_sent,       \* history: what the Proxy step just taken returned
    gk_strategy,   \* GatekeeperService.current_strategy, in the chain of three tiers
    ch,            \* the /set_strategy request travelling through the chain
    ch_sent,       \* history: what the chain step just taken returned to the client
    fw,            \* the request whose forwarded JSON body is being built and sent
    vq             \* the query text given to validate_query, and what it returned

vars == <<svc, now, cb, last, trk, request_counts, hist, hs, sent, served,
          current_strategy, last_proxy_health_check, probed, probe_status,
          worker_hosts, px_strategy, px, px_sent, gk_strategy, ch, ch_sent, fw, vq>>
cbVars == <<cb, last, trk>>
rlVars == <<request_counts, hist>>
svcVars == <<hs, sent, served, current_strategy, last_proxy_health_check, probed,
             probe_status>>
pxVars == <<worker_hosts, px_strategy, px, px_sent>>
chVars == <<gk_strategy, ch, ch_sent>>
fwVars == <<fw>>
vqVars == <<vq>>

Handlers == 1..NumHandlers

NoCall == [op |-> "none", pre |-> CircuitBreaker, t |-> 0, ret |-> TRUE,
           streak |-> 0, failT |-> 0]

\* history: last and trk after the breaker calls ops (method names, in call
\* order) made at the current time, starting from st = [cb, last, trk]
RECURSIVE History(_, _)
History(ops, st) ==
    IF ops = <<>> THEN st
    ELSE LET op == Head(ops)
             r == CASE op = "can_execute" -> can_execute(st.cb, now)
                    [] op = "record_success" -> [ret |-> TRUE, cb |-> record_success(st.cb)]
                    [] OTHER -> [ret |-> TRUE, cb |-> record_failure(st.cb, now)]
             k == st.trk
         IN  History(Tail(ops),
                [cb |-> r.cb,
                 last |-> [op |-> op, pre |-> st.cb, t |-> now, ret |-> r.ret,
                           streak |-> k.streak, failT |-> k.failT],
                 trk |-> CASE op = "can_execute" -> k
                           [] op = "record_success" -> [k EXCEPT !.streak = 0]
                           [] OTHER -> [streak |-> k.streak + 1, failT |-> now]])

\* last' and trk' of a step that makes the breaker calls ops
Record(ops) ==
    /\ last' = History(ops, [cb |-> cb, last |-> last, trk |-> trk]).last
    /\ trk' = History(ops, [cb |-> cb, last |-> last, trk |-> trk]).trk

\* the breaker of a service whose forwards failed k < threshold times in a
\* row more than RATE_WINDOW before the run starts (k = 0: a fresh breaker)
Earlier(k) ==
    IF k = 0 THEN CircuitBreaker
    ELSE [failures |-> k, last_failure_time |-> StartTime - RATE_WINDOW - 1,
          state |-> "closed"]

\* a service just started, but for the breaker
InitTier ==
    /\ now = StartTime
    /\ \E k \in {0, threshold - 1} :
          /\ cb = Earlier(k)
          /\ trk = [streak |-> k, failT |-> Earlier(k).last_failure_time]
    /\ last = NoCall
    /\ request_counts = [c \in Clients |-> <<>>]
    /\ hist = <<>>
    /\ hs = [h \in Handlers |-> Idle]
    /\ sent = NoResponse
    /\ served = 0
    /\ current_strategy = "direct"
    /\ last_proxy_health_check = 0
    /\ probed = 0
    /\ probe_status = "unknown"

InitService ==
    /\ svc \in Services
    /\ InitTier

\* ProxyManager.__init__ with the worker list workers
InitProxy(workers) ==
    /\ worker_hosts = workers
    /\ px_strategy = "direct"
    /\ px = PxIdle
    /\ px_sent = PxNothing

\* the Gatekeeper's cached strategy and no /set_strategy request under way
InitChain ==
    /\ gk_strategy = "direct"
    /\ ch = ChIdle
    /\ ch_sent = ChNothing

\* no request body being forwarded, no query validated
InitForward == fw = FwIdle
InitValidator == vq = NoQuery

Init ==
    /\ InitService
    /\ InitProxy(<<"worker1", "worker2">>)
    /\ InitChain
    /\ InitForward
    /\ InitValidator

\* time passes
Advance ==
    /\ now + Tick <= EndTime
    /\ now' = now + Tick

\* ---------------------------------------- the breaker, called one at a time
CB_record_failure ==
    /\ cb.failures < MaxFailures
    /\ cb' = record_failure(cb, now)
    /\ Record(<<"record_failure">>)
    /\ UNCHANGED <<pxVars, chVars, fwVars, vqVars, svc, now, rlVars, svcVars>>

CB_record_success ==
    /\ cb' = record_success(cb)
    /\ Record(<<"record_success">>)
    /\ UNCHANGED <<pxVars, chVars, fwVars, vqVars, svc, now, rlVars, svcVars>>

CB_can_execute ==
    /\ cb' = can_execute(cb, now).cb
    /\ Record(<<"can_execute">>)
    /\ UNCHANGED <<pxVars, chVars, fwVars, vqVars, svc, now, rlVars, svcVars>>

CB_Tick ==
    /\ Advance
    /\ last' = NoCall
    /\ UNCHANGED <<pxVars, chVars, fwVars, vqVars, svc, cb, trk, rlVars, svcVars>>

NextCB ==
    \/ CB_record_failure
    \/ CB_record_success
    \/ CB_can_execute
    \/ CB_Tick

SpecCB == Init /\ [][NextCB]_vars

\* ------------------------------------ the rate limiter, called one at a time
RL_check(c) ==
    /\ Len(hist) < MaxChecks
    /\ request_counts' = [request_counts EXCEPT
           ![c] = check_rate_limit(request_counts[c], now, RATE_LIMIT(svc)).counts]
    /\ hist' = Append(hist, [c |-> c, t |-> now,
           ret |-> check_rate_limit(request_counts[c], now, RATE_LIMIT(svc)).ret])
    /\ UNCHANGED <<pxVars, chVars, fwVars, vqVars, svc, now, cbVars, svcVars>>

RL_Tick ==
    /\ Advance
    /\ UNCHANGED <<pxVars, chVars, fwVars, vqVars, svc, cbVars, rlVars, svcVars>>

NextRL ==
    \/ \E c \in Clients : RL_check(c)
    \/ RL_Tick

SpecRL == Init /\ [][NextRL]_vars

\* --------------------------- the rate limiter, called by concurrent handlers
\* _check_rate_limit runs in the request's thread without a lock; a thread
\* switch can occur between its statements and between the evaluation of the
\* list comprehension and the assignment of its value
InitRC ==
    /\ InitService
    /\ cb = Earlier(0)
    /\ InitProxy(<<"worker1", "worker2">>)
    /\ InitChain
    /\ InitForward
    /\ InitValidator

\* the variables no step of the limiter changes
rcRest == <<pxVars, chVars, fwVars, vqVars, svc, cbVars, sent, served, current_strategy,
            last_proxy_health_check, probed, probe_status>>

\* the checks started so far
Started == Len(hist) + Cardinality({h \in Handlers : hs[h].pc # "idle"})

\* current_time = time.time() and the evaluation of
\* [t for t in request_counts[client_ip] if current_time - t < RATE_WINDOW]
RC_read(h, c) ==
    /\ hs[h].pc = "idle"
    /\ Started < MaxChecks
    /\ hs' = [hs EXCEPT ![h] = [Idle EXCEPT !.pc = "rl_store", !.client = c, !.t0 = now,
                                             !.tmp = Prune(request_counts[c], now)]]
    /\ UNCHANGED <<rcRest, now, request_counts, hist>>

\* request_counts[client_ip] = <the list built>
RC_store(h) ==
    /\ hs[h].pc = "rl_store"
    /\ request_counts' = [request_counts EXCEPT ![hs[h].client] = hs[h].tmp]
    /\ hs' = [hs EXCEPT ![h] = [@ EXCEPT !.pc = "rl_append", !.tmp = <<>>]]
    /\ UNCHANGED <<rcRest, now, hist>>

\* request_counts[client_ip].append(current_time)
RC_append(h) ==
    /\ hs[h].pc = "rl_append"
    /\ request_counts' = [request_counts EXCEPT ![hs[h].client] = Append(@, hs[h].t0)]
    /\ hs' = [hs EXCEPT ![h] = [@ EXCEPT !.pc = "rl_len"]]
    /\ UNCHANGED <<rcRest, now, hist>>

\* return len(request_counts[client_ip]) <= RATE_LIMIT
RC_len(h) ==
    /\ hs[h].pc = "rl_len"
    /\ hist' = Append(hist, [c |-> hs[h].client, t |-> hs[h].t0,
                             ret |-> Len(request_counts[hs[h].client]) <= RATE_LIMIT(svc)])
    /\ hs' = [hs EXCEPT ![h] = Idle]
    /\ UNCHANGED <<rcRest, now, request_counts>>

RC_Tick ==
    /\ Advance
    /\ UNCHANGED <<rcRest, request_counts, hist, hs>>

NextRC ==
    \/ \E h \in Handlers, c \in Callers : RC_read(h, c)
    \/ \E h \in Handlers : RC_store(h)
    \/ \E h \in Handlers : RC_append(h)
    \/ \E h \in Handlers : RC_len(h)
    \/ RC_Tick

SpecRC == InitRC /\ [][NextRC]_vars

\* ------------------------------------------- one service, requests in parallel
\* the window of client c can take one more timestamp (a bound of the model:
\* the list grows with every request the client sends within RATE_WINDOW)
Room(c) == Len(Prune(request_counts[c], now)) <= RATE_LIMIT(svc)

\* history: the response handler thread h returns after calls forward calls
Response(h, end, resp, calls) ==
    [ep |-> hs[h].ep, body |-> hs[h].body, name |-> hs[h].name, end |-> end,
     resp |-> resp, calls |-> calls, got |-> NoResp]

\* requests are taken by the first idle handler thread
Free(h) == hs[h].pc = "idle" /\ \A g \in 1..(h - 1) : hs[g].pc # "idle"

\* one more request is received
Receive ==
    /\ served < MaxRequests
    /\ served' = served + 1

\* POST /query at the Gatekeeper: handle_query and process_request up to the
\* first HTTP call to the Trusted Host
GK_query(h, c, body) ==
    /\ svc = "gatekeeper"
    /\ Free(h)
    /\ Room(c)
    /\ IF body.kind = "unparsable"
       THEN /\ sent' = Screening("query", body, "none", "unparsable",
                                 Error("Internal server error", ""))
            /\ last' = NoCall
            /\ UNCHANGED <<cb, trk, request_counts, hs>>
       ELSE LET scr == GkScreen(cb, request_counts[c], now, body)
            IN  /\ cb' = scr.cb
                /\ Record(<<"can_execute">>)
                /\ request_counts' = [request_counts EXCEPT ![c] = scr.counts]
                /\ IF scr.end = "forward"
                   THEN /\ hs' = [hs EXCEPT ![h] = [Idle EXCEPT !.pc = "forward",
                                     !.ep = "query", !.body = body]]
                        /\ sent' = NoResponse
                   ELSE /\ sent' = Screening("query", body, "none", scr.end, scr.resp)
                        /\ UNCHANGED hs
    /\ UNCHANGED <<pxVars, chVars, fwVars, vqVars, svc, now, hist, current_strategy, last_proxy_health_check,
                   probed, probe_status>>

\* the request is one of the MaxRequests requests of a run
GK_handle_query(h, c, body) ==
    /\ Receive
    /\ GK_query(h, c, body)

\* POST /query at the Trusted Host: handle_query and forward_request up to the
\* first HTTP call to the Proxy (the health probe when the cached one is older
\* than health_check_interval, else the first forward attempt)
TH_query(h, c, body) ==
    /\ svc = "trusted_host"
    /\ Free(h)
    /\ Room(c)
    /\ LET scr == ThScreen(cb, request_counts[c], now, body, last_proxy_health_check)
       IN  /\ cb' = scr.cb
           /\ IF scr.end \in {"rate", "unparsable"}
              THEN last' = NoCall /\ UNCHANGED trk
              ELSE Record(<<"can_execute">>)
           /\ request_counts' = [request_counts EXCEPT ![c] = scr.counts]
           /\ IF scr.end \in {"forward", "probe"}
              THEN /\ hs' = [hs EXCEPT ![h] = [Idle EXCEPT !.pc = scr.end,
                                !.ep = "query", !.body = body,
                                !.t0 = IF scr.end = "probe" THEN now ELSE 0]]
                   /\ sent' = NoResponse
              ELSE /\ sent' = Screening("query", body, "none", scr.end, scr.resp)
                   /\ UNCHANGED hs
           /\ probed' = IF scr.end = "probe" THEN now ELSE probed
    /\ UNCHANGED <<pxVars, chVars, fwVars, vqVars, svc, now, hist, current_strategy, last_proxy_health_check,
                   probe_status>>

\* the request is one of the MaxRequests requests of a run
TH_handle_query(h, c, body) ==
    /\ Receive
    /\ TH_query(h, c, body)

\* _check_proxy_health once GET /health of the Proxy has ended: status 200,
\* another status, or an exception; t0 is the current_time it read before
TH_check_proxy_health(h, result) ==
    /\ svc = "trusted_host"
    /\ hs[h].pc = "probe"
    /\ last_proxy_health_check' =
          IF result = "exception" THEN last_proxy_health_check ELSE hs[h].t0
    /\ IF result = "200"
       THEN /\ hs' = [hs EXCEPT ![h] = [@ EXCEPT !.pc = "forward", !.t0 = 0]]
            /\ sent' = NoResponse
       ELSE /\ hs' = [hs EXCEPT ![h] = Idle]
            /\ sent' = Response(h, "unhealthy", Error("Proxy service unavailable", ""), 0)
    /\ probe_status' = IF result = "200" THEN "healthy" ELSE "unhealthy"
    /\ last' = NoCall
    /\ UNCHANGED <<pxVars, chVars, fwVars, vqVars, svc, now, cb, trk, rlVars, served, current_strategy,
                   probed>>

\* GET /set_strategy/<name> at the Trusted Host up to the first HTTP call
TH_set_strategy(h, name) ==
    /\ svc = "trusted_host"
    /\ Free(h)
    /\ Receive
    /\ LET scr == ThSetScreen(cb, now, name)
       IN  /\ cb' = scr.cb
           /\ IF scr.end = "badname"
              THEN last' = NoCall /\ UNCHANGED trk
              ELSE Record(<<"can_execute">>)
           /\ IF scr.end = "forward"
              THEN /\ hs' = [hs EXCEPT ![h] = [Idle EXCEPT !.pc = "forward",
                                !.ep = "set_strategy", !.name = name]]
                   /\ sent' = NoResponse
              ELSE /\ sent' = Screening("set_strategy", NoBody, name, scr.end, scr.resp)
                   /\ UNCHANGED hs
    /\ UNCHANGED <<pxVars, chVars, fwVars, vqVars, svc, now, rlVars, current_strategy, last_proxy_health_check,
                   probed, probe_status>>

\* one attempt of a retry loop (process_request, forward_request,
\* set_strategy of the Trusted Host): the HTTP call ends with outcome, and
\* with the JSON body reply when the outcome is "ok"
Forward(h, outcome, reply) ==
    /\ hs[h].pc = "forward"
    /\ (outcome # "ok" /\ hs[h].attempt = retry_attempts - 1) => cb.failures < MaxFailures
    /\ LET r == AfterAttempt(cb, now, hs[h].attempt, outcome)
       IN  /\ cb' = r.cb
           /\ IF r.ops = <<>>
              THEN last' = NoCall /\ UNCHANGED trk
              ELSE Record(r.ops)
           /\ current_strategy' =
                 IF hs[h].ep = "set_strategy" /\ outcome \in {"ok", "nonjson"}
                 THEN hs[h].name
                 ELSE current_strategy
           /\ IF r.next = "retry"
              THEN /\ hs' = [hs EXCEPT ![h] = [@ EXCEPT !.attempt = @ + 1,
                                !.calls = @ + 1]]
                   /\ sent' = NoResponse
              ELSE /\ hs' = [hs EXCEPT ![h] = Idle]
                   /\ sent' = [Response(h,
                         IF r.next = "return" THEN "returned" ELSE "raised",
                         Answer(svc, hs[h].ep, r.next, outcome, reply),
                         hs[h].calls + 1) EXCEPT !.got = reply]
    /\ UNCHANGED <<pxVars, chVars, fwVars, vqVars, svc, now, rlVars, served, last_proxy_health_check,
                   probed, probe_status>>

Clock ==
    /\ Advance
    /\ last' = NoCall
    /\ sent' = NoResponse
    /\ UNCHANGED <<pxVars, chVars, fwVars, vqVars, svc, cb, trk, rlVars, hs, served, current_strategy,
                   last_proxy_health_check, probed, probe_status>>

Next ==
    \/ \E h \in Handlers, c \in Callers, body \in Bodies : GK_handle_query(h, c, body)
    \/ \E h \in Handlers, c \in Callers, body \in BodiesTH : TH_handle_query(h, c, body)
    \/ \E h \in Handlers, r \in {"200", "503", "exception"} : TH_check_proxy_health(h, r)
    \/ \E h \in Handlers, name \in StrategyNames : TH_set_strategy(h, name)
    \/ \E h \in Handlers, o \in Outcomes :
          \E reply \in (IF o = "ok" THEN DownstreamReplies ELSE {NoResp}) :
             Forward(h, o, reply)
    \/ Clock

Spec == Init /\ [][Next]_vars

\* ------------------------------------------------------ the Proxy on its own
\* a Proxy started with any of the worker lists
InitPX ==
    /\ InitService
    /\ \E workers \in Topologies : InitProxy(workers)
    /\ InitChain
    /\ InitForward
    /\ InitValidator

\* the bodies of POST /query at the Proxy, the names of GET /set_strategy/<name>
ProxyBodies == {Body("none", 0)} \cup {Body("query", q) : q \in 1..Len(ProxyQueries)}
ProxyStrategyNames == {"direct", "random", "customized", "fastest"}
\* what the probes of _get_fastest_worker may find, when the request makes them
ProbeResults(body) ==
    IF body.kind = "query" /\ ~IsWrite[body.q] /\ px_strategy = "customized"
    THEN [1..Len(worker_hosts) -> ProbeOutcomes]
    ELSE {<<>>}
\* the hosts a read may select
ProxyHosts(body) ==
    IF body.kind = "query" /\ ~IsWrite[body.q]
    THEN {worker_hosts[i] : i \in 1..Len(worker_hosts)}
    ELSE {"none"}

\* POST /query at the Proxy: query_handler and route_request up to the first
\* blocking call; a read selects its host (probing every worker when the
\* strategy is customized), a write calls _execute_query on the manager
PX_query(body, probes, host) ==
    /\ px.pc = "idle"
    /\ IF body.kind # "query"
       THEN /\ px_sent' = PxSent("query", "none",
                                 [status |-> "error", message |-> "No query provided",
                                  host |-> "none"], PxIdle)
            /\ UNCHANGED px
       ELSE /\ px_sent' = PxNothing
            /\ IF IsWrite[body.q]
               THEN px' = Call([PxIdle EXCEPT !.write = TRUE, !.q = body.q], "manager",
                               manager_host, px_strategy)
               ELSE /\ host \in select_read_host(px_strategy, worker_hosts, probes)
                    /\ px' = [PxIdle EXCEPT !.pc = "call", !.stage = "read", !.q = body.q,
                                            !.sel = px_strategy, !.probes = probes,
                                            !.target = host]
    /\ UNCHANGED <<worker_hosts, px_strategy, chVars, fwVars, vqVars, svc, now, cbVars, rlVars, svcVars>>

\* route_request calls _execute_query(target_host, query, self.current_strategy)
PX_call ==
    /\ px.pc = "call"
    /\ px' = [px EXCEPT !.pc = "exec",
                        !.pending = Exec(px.target, get_port(px_strategy), px_strategy)]
    /\ px_sent' = PxNothing
    /\ UNCHANGED <<worker_hosts, px_strategy, chVars, fwVars, vqVars, svc, now, cbVars, rlVars, svcVars>>

\* the _execute_query call in progress ends; route_request goes on to its
\* next call or returns, and query_handler answers
PX_execute(outcome) ==
    /\ px.pc = "exec"
    /\ LET p == route_request(px, outcome, worker_hosts, px_strategy)
       IN  IF p.pc = "done"
           THEN px' = PxIdle /\ px_sent' = PxSent("query", "none", p.ret, p)
           ELSE px' = p /\ px_sent' = PxNothing
    /\ UNCHANGED <<worker_hosts, px_strategy, chVars, fwVars, vqVars, svc, now, cbVars, rlVars, svcVars>>

\* GET /set_strategy/<name> at the Proxy
PX_set_strategy(name) ==
    /\ px_strategy' = px_set_strategy(px_strategy, name).strategy
    /\ px_sent' = PxSent("set_strategy", name, px_set_strategy(px_strategy, name).resp, PxIdle)
    /\ UNCHANGED <<worker_hosts, px, chVars, fwVars, vqVars, svc, now, cbVars, rlVars, svcVars>>

\* GET /health at the Proxy
PX_health ==
    /\ px_sent' = PxSent("health", "none", px_health_check, PxIdle)
    /\ UNCHANGED <<worker_hosts, px_strategy, px, chVars, fwVars, vqVars, svc, now, cbVars, rlVars, svcVars>>

NextPX ==
    \/ \E body \in ProxyBodies :
          \E probes \in ProbeResults(body) :
             \E host \in ProxyHosts(body) : PX_query(body, probes, host)
    \/ PX_call
    \/ \E outcome \in ExecOutcomes : PX_execute(outcome)
    \/ \E name \in ProxyStrategyNames : PX_set_strategy(name)
    \/ PX_health

SpecPX == InitPX /\ [][NextPX]_vars

\* ------------------------------ /set_strategy through the three tiers
\* cb and current_strategy are the Trusted Host's, gk_strategy the
\* Gatekeeper's, px_strategy the Proxy's. One request at a time enters at the
\* Gatekeeper or at the Trusted Host; the Proxy is also called directly.
InitCH ==
    /\ InitService
    /\ svc = "trusted_host"
    /\ InitProxy(<<"worker1", "worker2">>)
    /\ InitChain
    /\ InitForward
    /\ InitValidator

\* history: the strategies of the Gatekeeper, the Trusted Host and the Proxy
Snapshot == <<gk_strategy, current_strategy, px_strategy>>

\* the variables no step of the chain changes
chRest == <<fwVars, vqVars, svc, rlVars, hs, sent, served, last_proxy_health_check, probed, probe_status,
            worker_hosts, px, px_sent>>

\* the Trusted Host's set_strategy returns resp for request c: to its client,
\* or to the Gatekeeper, whose HTTP call is still to end
ThAnswers(c, resp) ==
    IF c.tier = "gatekeeper"
    THEN /\ ch' = [c EXCEPT !.pc = "gk", !.reply = resp]
         /\ ch_sent' = ChNothing
    ELSE /\ ch' = [ChIdle EXCEPT !.okname = IF c.hops = 0 THEN ch.okname ELSE "none"]
         /\ ch_sent' = ChSent("set_strategy", "trusted_host", c.name, resp, c.hops,
                              c.before, "none")

\* GET /set_strategy/<name> at the Gatekeeper up to its HTTP call
CH_gk_set_strategy(name) ==
    /\ ch.pc = "idle"
    /\ IF GkSetScreen(name).end = "forward"
       THEN /\ ch' = [ChIdle EXCEPT !.pc = "th", !.tier = "gatekeeper", !.name = name,
                         !.hops = 1, !.before = Snapshot]
            /\ ch_sent' = ChNothing
       ELSE /\ ch' = [ChIdle EXCEPT !.okname = ch.okname]
            /\ ch_sent' = ChSent("set_strategy", "gatekeeper", name, GkSetScreen(name).resp,
                                 0, Snapshot, "none")
    /\ last' = NoCall
    /\ UNCHANGED <<chRest, now, cb, trk, current_strategy, px_strategy, gk_strategy>>

\* the Gatekeeper's HTTP call ends with outcome: a connection error before
\* the Trusted Host received it, or, once the Trusted Host has answered, its
\* answer ("ok") or a timeout
CH_gk_returns(outcome) ==
    /\ \/ ch.pc = "th" /\ ch.tier = "gatekeeper" /\ outcome = "connection"
       \/ ch.pc = "gk" /\ outcome \in {"ok", "timeout"}
    /\ LET g == gk_set_strategy(gk_strategy, ch.name, outcome, ch.reply)
       IN  /\ gk_strategy' = g.strategy
           /\ ch_sent' = ChSent("set_strategy", "gatekeeper", ch.name, g.resp, ch.hops,
                                ch.before, "none")
           /\ ch' = [ChIdle EXCEPT !.okname =
                        IF g.resp.status = "success" /\ ch.alone THEN ch.name ELSE "none"]
    /\ last' = NoCall
    /\ UNCHANGED <<chRest, now, cb, trk, current_strategy, px_strategy>>

\* GET /set_strategy/<name> at the Trusted Host up to its first HTTP call,
\* sent by a client or by the Gatekeeper
CH_th_set_strategy(name) ==
    /\ \/ ch.pc = "idle"
       \/ ch.pc = "th" /\ name = ch.name
    /\ LET scr == ThSetScreen(cb, now, name)
           c == IF ch.pc = "th" THEN ch
                ELSE [ChIdle EXCEPT !.tier = "trusted_host", !.name = name,
                                    !.before = Snapshot]
       IN  /\ cb' = scr.cb
           /\ IF scr.end = "badname"
              THEN last' = NoCall /\ UNCHANGED trk
              ELSE Record(<<"can_execute">>)
           /\ IF scr.end = "forward"
              THEN /\ ch' = [c EXCEPT !.pc = "proxy", !.hops = @ + 1]
                   /\ ch_sent' = ChNothing
              ELSE ThAnswers(c, scr.resp)
    /\ UNCHANGED <<chRest, now, current_strategy, px_strategy, gk_strategy>>

\* one attempt of the Trusted Host's retry loop: its HTTP call ends with
\* outcome; reached says whether the Proxy's set_strategy ran (it did when the
\* answer is the Proxy's, it may have when the call timed out)
CH_th_attempt(outcome, reached) ==
    /\ ch.pc = "proxy"
    /\ reached => outcome \in {"ok", "timeout"}
    /\ outcome = "ok" => reached
    /\ (outcome \in Failures /\ ch.attempt = retry_attempts - 1) => cb.failures < MaxFailures
    /\ LET r == AfterAttempt(cb, now, ch.attempt, outcome)
           p == px_set_strategy(px_strategy, ch.name)
       IN  /\ cb' = r.cb
           /\ IF r.ops = <<>>
              THEN last' = NoCall /\ UNCHANGED trk
              ELSE Record(r.ops)
           /\ px_strategy' = IF reached THEN p.strategy ELSE px_strategy
           /\ current_strategy' =
                 IF outcome \in {"ok", "nonjson"} THEN ch.name ELSE current_strategy
           /\ IF r.next = "retry"
              THEN /\ ch' = [ch EXCEPT !.attempt = @ + 1, !.hops = @ + 1]
                   /\ ch_sent' = ChNothing
              ELSE ThAnswers(ch,
                             IF r.next = "return" THEN p.resp
                             ELSE Raised("trusted_host", "set_strategy", outcome))
    /\ UNCHANGED <<chRest, now, gk_strategy>>

\* GET /set_strategy/<name> at the Proxy, sent by a client
CH_px_set_strategy(name) ==
    /\ LET p == px_set_strategy(px_strategy, name)
       IN  /\ px_strategy' = p.strategy
           /\ ch_sent' = ChSent("set_strategy", "proxy", name, p.resp, 0, Snapshot, "none")
           /\ ch' = IF p.resp.status = "success"
                    THEN [ch EXCEPT !.alone = FALSE, !.okname = "none"]
                    ELSE ch
    /\ last' = NoCall
    /\ UNCHANGED <<chRest, now, cb, trk, current_strategy, gk_strategy>>

\* GET /health at the Proxy
CH_px_health ==
    /\ ch_sent' = ChSent("health", "proxy", "none", px_health_check, 0, Snapshot, ch.okname)
    /\ last' = NoCall
    /\ UNCHANGED <<chRest, now, cb, trk, ch, current_strategy, px_strategy, gk_strategy>>

\* GET /health at the Trusted Host, between two strategy changes; result is
\* what its GET /health of the Proxy gives
CH_th_health(result) ==
    /\ ch.pc = "idle"
    /\ ch_sent' = ChSent("health", "trusted_host", "none",
                         th_health_check(result, current_strategy, cb.state, now),
                         0, Snapshot, "none")
    /\ last' = NoCall
    /\ UNCHANGED <<chRest, now, cb, trk, ch, current_strategy, px_strategy, gk_strategy>>

\* GET /health at the Gatekeeper, between two strategy changes; outcome is how
\* its GET /health of the Trusted Host ends, result what the Trusted Host's
\* probe of the Proxy gives. The Gatekeeper's breaker is not part of the
\* chain: any state
CH_gk_health(outcome, result, state) ==
    /\ ch.pc = "idle"
    /\ ch_sent' = ChSent("health", "gatekeeper", "none",
                         gk_health_check(outcome,
                             th_health_check(result, current_strategy, cb.state, now),
                             gk_strategy, state, now),
                         0, Snapshot, "none")
    /\ last' = NoCall
    /\ UNCHANGED <<chRest, now, cb, trk, ch, current_strategy, px_strategy, gk_strategy>>

CH_clock ==
    /\ Advance
    /\ last' = NoCall
    /\ ch_sent' = ChNothing
    /\ UNCHANGED <<chRest, cb, trk, ch, current_strategy, px_strategy, gk_strategy>>

NextCH ==
    \/ \E name \in ChainNames : CH_gk_set_strategy(name)
    \/ \E outcome \in {"ok", "timeout", "connection"} : CH_gk_returns(outcome)
    \/ \E name \in ChainNames : CH_th_set_strategy(name)
    \/ \E outcome \in Outcomes, reached \in BOOLEAN : CH_th_attempt(outcome, reached)
    \/ \E name \in ChainNames : CH_px_set_strategy(name)
    \/ CH_px_health
    \/ \E result \in {"200", "503", "exception"} : CH_th_health(result)
    \/ \E outcome \in {"ok", "nonjson"} \cup Failures, state \in {"closed", "open"} :
          CH_gk_health(outcome, "200", state)
    \/ CH_clock

SpecCH == InitCH /\ [][NextCH]_vars

\* ------------- /set_strategy entering through the Gatekeeper only
\* the Trusted Host receives the request the Gatekeeper's HTTP call carries
CG_th_set_strategy ==
    /\ ch.pc = "th"
    /\ CH_th_set_strategy(ch.name)

NextCG ==
    \/ \E name \in ChainNames : CH_gk_set_strategy(name)
    \/ \E outcome \in {"ok", "timeout", "connection"} : CH_gk_returns(outcome)
    \/ CG_th_set_strategy
    \/ \E outcome \in Outcomes, reached \in BOOLEAN : CH_th_attempt(outcome, reached)
    \/ CH_clock

SpecCG == InitCH /\ [][NextCG]_vars

\* ------------------------------------- the JSON body of a forwarded /query
\* gk_strategy is the Gatekeeper's current_strategy, current_strategy the
\* Trusted Host's; set_strategy requests handled by other threads assign them
\* at any time. One /query at a time is followed from the body a tier
\* receives to the body it sends on.
InitFW ==
    /\ InitService
    /\ svc = "gatekeeper"
    /\ InitProxy(<<"worker1", "worker2">>)
    /\ InitChain
    /\ InitForward
    /\ InitValidator

\* the variables no step of the forwarding changes
fwRest == <<svc, now, cbVars, rlVars, svcVars>>

\* POST /query at the Gatekeeper, up to the first read of self.current_strategy
\* in "Add strategy information to request"
FW_gk_read(body) ==
    /\ fw.pc = "idle"
    /\ fw' = [FwIdle EXCEPT !.pc = "read", !.tier = "gatekeeper", !.inb = body,
                            !.s1 = gk_strategy]
    /\ UNCHANGED <<fwRest, pxVars, chVars, vqVars>>

\* the second read of self.current_strategy, request_data.update and the
\* requests.post of the first attempt
FW_gk_post ==
    /\ fw.pc = "read"
    /\ fw' = [fw EXCEPT !.pc = "sent", !.out = gk_enhance(fw.inb, fw.s1, gk_strategy)]
    /\ UNCHANGED <<fwRest, pxVars, chVars, vqVars>>

\* POST /query at the Trusted Host, sent by a client, up to the requests.post
\* of the first attempt
FW_th_post(body) ==
    /\ fw.pc = "idle"
    /\ fw' = [FwIdle EXCEPT !.pc = "sent", !.tier = "trusted_host", !.inb = body,
                            !.out = th_enhance(body, current_strategy)]
    /\ UNCHANGED <<fwRest, pxVars, chVars, vqVars>>

\* the Gatekeeper's POST reaches the Trusted Host, which goes on up to its own
\* requests.post
FW_th_relay ==
    /\ fw.pc = "sent"
    /\ fw.tier = "gatekeeper"
    /\ fw' = [FwIdle EXCEPT !.pc = "sent", !.tier = "trusted_host", !.inb = fw.out,
                            !.out = th_enhance(fw.out, current_strategy)]
    /\ UNCHANGED <<fwRest, pxVars, chVars, vqVars>>

\* the HTTP call ends and the request is answered
FW_done ==
    /\ fw.pc = "sent"
    /\ fw' = FwIdle
    /\ UNCHANGED <<fwRest, pxVars, chVars, vqVars>>

\* "self.current_strategy = strategy" of a set_strategy request at service s
FW_set_strategy(s, name) ==
    /\ IF s = "gatekeeper"
       THEN gk_strategy' = name /\ UNCHANGED current_strategy
       ELSE current_strategy' = name /\ UNCHANGED gk_strategy
    /\ UNCHANGED <<svc, now, cbVars, rlVars, hs, sent, served, last_proxy_health_check,
                   probed, probe_status, pxVars, ch, ch_sent, fwVars, vqVars>>

NextFW ==
    \/ \E body \in InBodies : FW_gk_read(body)
    \/ FW_gk_post
    \/ \E body \in InBodies : FW_th_post(body)
    \/ FW_th_relay
    \/ FW_done
    \/ \E s \in Services, name \in Strategies : FW_set_strategy(s, name)

SpecFW == InitFW /\ [][NextFW]_vars

\* ------------------------------------------------- validate_query on its own
\* a Gatekeeper just constructed: the validator keeps no state of its own
InitVQ ==
    /\ InitService
    /\ svc = "gatekeeper"
    /\ cb = Earlier(0)
    /\ InitProxy(<<"worker1", "worker2">>)
    /\ InitChain
    /\ InitForward
    /\ InitValidator

\* validate_query is called with the query so far followed by piece
VQ_validate(piece) ==
    /\ vq.n < MaxPieces
    /\ vq' = Validated(vq.query \o piece, vq.n + 1)
    /\ UNCHANGED <<fwRest, pxVars, chVars, fwVars>>

\* validate_query is called with a one-piece query followed by letters up to
\* length len
VQ_validate_long(len) ==
    /\ vq.n = 1
    /\ vq' = Validated(vq.query \o Padding(Len(vq.query), len), MaxPieces)
    /\ UNCHANGED <<fwRest, pxVars, chVars, fwVars>>

NextVQ ==
    \/ \E piece \in Pieces : VQ_validate(piece)
    \/ \E len \in {MaxQueryLength, MaxQueryLength + 1} : VQ_validate_long(len)

SpecVQ == InitVQ /\ [][NextVQ]_vars

\* ------------------------------------------------ every endpoint, every tier
\* One of the above is run: a service tier handling /query requests (svc is
\* the tier), the Proxy (svc "proxy"), or the chain of three tiers handling
\* /set_strategy and /health (svc "chain").
InitAll ==
    \/ Init
    \/ /\ svc = "proxy"
       /\ InitTier
       /\ \E workers \in Topologies : InitProxy(workers)
       /\ InitChain /\ InitForward /\ InitValidator
    \/ /\ svc = "chain"
       /\ InitTier
       /\ InitProxy(<<"worker1", "worker2">>)
       /\ InitChain /\ InitForward /\ InitValidator

NextAll ==
    \/ svc \in Services /\ Next
    \/ svc = "proxy" /\ NextPX
    \/ svc = "chain" /\ NextCH

SpecAll == InitAll /\ [][NextAll]_vars

\* ------------------------------------------- POST /query at each tier
\* a Gatekeeper or a Trusted Host handling requests, or a Proxy
InitQ ==
    \/ Init
    \/ /\ svc = "proxy"
       /\ InitTier
       /\ \E workers \in Topologies : InitProxy(workers)
       /\ InitChain /\ InitForward /\ InitValidator

NextQ ==
    \/ svc \in Services /\ Next
    \/ svc = "proxy" /\ NextPX

SpecQ == InitQ /\ [][NextQ]_vars

\* --------------------------------- a tier whose downstream has recovered
\* The service from the moment its downstream tier answers every call: the
\* breaker is open, opened by a fifth failure recorded before the run starts,
\* and nothing is under way.
OpenedAt == {StartTime - RATE_WINDOW - 1, StartTime - Tick}
InitRV ==
    /\ svc \in Services
    /\ now = StartTime
    /\ \E t \in OpenedAt :
          /\ cb = [failures |-> threshold, last_failure_time |-> t, state |-> "open"]
          /\ trk = [streak |-> threshold, failT |-> t]
    /\ last = NoCall
    /\ request_counts = [c \in Clients |-> <<>>]
    /\ hist = <<>>
    /\ hs = [h \in Handlers |-> Idle]
    /\ sent = NoResponse
    /\ served = 0
    /\ current_strategy = "direct"
    /\ last_proxy_health_check = 0
    /\ probed = 0
    /\ probe_status = "unknown"
    /\ InitProxy(<<"worker1", "worker2">>)
    /\ InitChain
    /\ InitForward
    /\ InitValidator

\* the bodies of valid requests
ValidBodies == {body \in BodiesTH : body.kind = "query" /\ Verdict[body.q].ok}

\* POST /query with a valid body from a client that is within its rate limit
RV_query(h, c, body) ==
    /\ Len(Prune(request_counts[c], now)) < RATE_LIMIT(svc)
    /\ GK_query(h, c, body) \/ TH_query(h, c, body)
    /\ UNCHANGED served

\* the Proxy answers the health probe with status 200
RV_probe(h) == TH_check_proxy_health(h, "200")

\* the downstream tier answers a forward call with a success envelope
RV_forward(h) == Forward(h, "ok", [status |-> "success", message |-> <<"result", "">>])

Arrives == \E h \in Handlers, c \in Callers, body \in ValidBodies : RV_query(h, c, body)
Probed == \E h \in Handlers : RV_probe(h)
Answered == \E h \in Handlers : RV_forward(h)

NextRV ==
    \/ Arrives
    \/ Probed
    \/ Answered
    \/ Clock

\* time passes, requests keep arriving, every HTTP call returns
SpecRV ==
    /\ InitRV
    /\ [][NextRV]_vars
    /\ WF_vars(Clock)
    /\ WF_vars(Arrives)
    /\ WF_vars(Probed)
    /\ WF_vars(Answered)

\* ================================================================ properties
\* last is the breaker call of the step just taken: last.pre the breaker before
\* it, last.t its time, last.ret what it returned, last.streak and last.failT
\* the record_failure calls since the last record_success and the time of the
\* last of them; cb is the breaker the call left.

\* C3: once threshold (5) or more record_failure calls were made with no
\* record_success in between, a can_execute call returns False while at most
\* timeout (60 s) have passed since the last recorded failure and returns True,
\* leaving the breaker half-open, when more than 60 s have passed; a
\* record_success on the half-open breaker leaves it closed with 0 failures.
C3_TripAndRecover ==
    /\ (last.op = "can_execute" /\ last.streak >= threshold) =>
          IF last.t - last.failT <= timeout
          THEN last.ret = FALSE /\ cb.state = "open"
          ELSE last.ret = TRUE /\ cb.state = "half-open"
    /\ (last.op = "record_failure" /\ last.streak + 1 >= threshold) => cb.state = "open"
    /\ (last.op = "record_success" /\ last.pre.state = "half-open") =>
          cb.state = "closed" /\ cb.failures = 0

\* a record_success on a breaker that five failures opened and a can_execute
\* after the timeout made half-open
C3_Witness ==
    /\ last.op = "record_success"
    /\ last.pre.state = "half-open"
    /\ last.streak = threshold
    /\ last.t - last.failT > timeout

\* C4: can_execute returns False exactly when the breaker is open and the time
\* since last_failure_time is not above timeout; on a closed or half-open
\* breaker it returns True and leaves the breaker as it was.
C4_CanExecute ==
    last.op = "can_execute" =>
        /\ last.ret = FALSE <=>
              (last.pre.state = "open" /\ last.t - last.pre.last_failure_time <= timeout)
        /\ last.pre.state \in {"closed", "half-open"} => (last.ret = TRUE /\ cb = last.pre)
        /\ last.ret = FALSE => cb = last.pre

\* can_execute refused exactly timeout seconds after the last failure
C4_Witness ==
    /\ last.op = "can_execute"
    /\ last.ret = FALSE
    /\ last.t - last.pre.last_failure_time = timeout

\* hist[i] is the i-th _check_rate_limit call: its client, time and result.
\* the earlier checks of the same client that are younger than RATE_WINDOW at
\* check i
InWindow(i) ==
    {j \in 1..(i - 1) : hist[j].c = hist[i].c /\ hist[i].t - hist[j].t < RATE_WINDOW}

\* C6: with limit N, a check of a client returns True exactly when fewer than N
\* earlier checks of that client lie within the 60 s before it: the first N
\* checks of a window pass, the next one is refused, and a check made once the
\* earlier ones are 60 s old passes again.
C6_Window ==
    \A i \in 1..Len(hist) :
        hist[i].ret = (Cardinality(InWindow(i)) < RATE_LIMIT(svc))

\* a client was refused and, once its window had elapsed, allowed again
C6_Witness ==
    \E i, j \in 1..Len(hist) :
        /\ i < j
        /\ hist[i].c = hist[j].c
        /\ hist[i].ret = FALSE
        /\ Cardinality(InWindow(i)) = RATE_LIMIT(svc)
        /\ hist[j].ret = TRUE

\* C7: after a _check_rate_limit call the client's list holds no entry that was
\* RATE_WINDOW (60 s) old or older at the time of the check, and its last
\* entry is the time of the check.
C7_Pruned ==
    hist # <<>> =>
        LET e == hist[Len(hist)]
            list == request_counts[e.c]
        IN  /\ list # <<>>
            /\ list[Len(list)] = e.t
            /\ \A i \in 1..Len(list) : e.t - list[i] < RATE_WINDOW

\* the last check found an entry of exactly RATE_WINDOW seconds and one younger
C7_Witness ==
    /\ Len(hist) >= 3
    /\ LET e == hist[Len(hist)]
       IN  /\ \E j \in 1..(Len(hist) - 1) :
                 hist[j].c = e.c /\ e.t - hist[j].t = RATE_WINDOW
           /\ \E j \in 1..(Len(hist) - 1) :
                 hist[j].c = e.c /\ e.t - hist[j].t < RATE_WINDOW
           /\ Len(request_counts[e.c]) = 2

\* sent is the response the step just taken returned: sent.end says where the
\* request ended ("breaker", "rate", "format", "size", "invalid": before any
\* HTTP call; "returned", "raised": in the retry loop), sent.calls the forward
\* calls made for it.

\* C1: the Gatekeeper never has a forward call in progress for a query that
\* validate_query rejects; a request whose query the validator rejected gets
\* the error envelope with the validator's reason and caused no HTTP call.
C1_RejectedNeverForwarded ==
    svc = "gatekeeper" =>
        /\ \A h \in Handlers :
              hs[h].pc = "forward" =>
                  hs[h].body.kind = "query" /\ Verdict[hs[h].body.q].ok
        /\ (sent.body.kind = "query" /\ ~Verdict[sent.body.q].ok) =>
              sent.calls = 0 /\ sent.resp.status = "error"
        /\ sent.end = "invalid" =>
              /\ ~Verdict[sent.body.q].ok
              /\ sent.resp = [status |-> "error", message |-> Verdict[sent.body.q].reason]
              /\ sent.calls = 0

\* DROP TABLE actor was answered with the validator's reason
C1_Witness ==
    /\ svc = "gatekeeper"
    /\ sent.end = "invalid"
    /\ Queries[sent.body.q] = QDrop
    /\ sent.resp.message = <<"Query contains forbidden keyword: ", "DROP">>

\* C2: the breaker state never changes from open directly to closed, also
\* when requests handled concurrently share the breaker.
C2_NoOpenToClosed ==
    [][cb.state = "open" => cb'.state # "closed"]_vars

\* C5: record_success leaves the breaker closed with 0 failures whatever its
\* state was; a forward that returns a downstream reply leaves 0 failures; the
\* failure count is the number of failures recorded since the last success.
C5_SuccessResets ==
    /\ last.op = "record_success" => (cb.failures = 0 /\ cb.state = "closed")
    /\ sent.end = "returned" => (cb.failures = 0 /\ cb.state = "closed")
    /\ cb.failures = trk.streak

\* a forward succeeded on a breaker that had counted failures
C5_Witness ==
    /\ sent.end = "returned"
    /\ last.op = "record_success"
    /\ last.pre.failures > 0

\* C8 as stated: a POST /query that the Gatekeeper answers with the breaker
\* error has been recorded in the caller's rate-limit window.
C8_RateLimitBeforeBreaker ==
    (svc = "gatekeeper" /\ sent.end = "breaker") =>
        \A c \in Callers :
            /\ request_counts[c] # <<>>
            /\ request_counts[c][Len(request_counts[c])] = now

\* C8 amended: process_request consults the breaker first, then the rate
\* limit, then the body and the validator: a request refused by the breaker
\* leaves every window as it was; a request that passes the breaker is
\* recorded in the caller's window and, when that puts the caller over the
\* limit, gets the rate-limit error whatever its body or query.
C8_BreakerBeforeRateLimit ==
    [][(svc = "gatekeeper" /\ served' = served + 1 /\ last'.op = "can_execute") =>
          IF ~last'.ret
          THEN sent'.end = "breaker" /\ request_counts' = request_counts
          ELSE \E c \in Callers :
                  /\ request_counts' =
                        [request_counts EXCEPT ![c] = Append(Prune(@, now), now)]
                  /\ (Len(request_counts'[c]) > RATE_LIMIT(svc)) <=> (sent'.end = "rate")
                  /\ sent'.end \in {"format", "size", "invalid"} =>
                        Len(request_counts'[c]) <= RATE_LIMIT(svc)]_vars

\* the breaker refused a request of a caller whose window was full
C8_Witness ==
    /\ svc = "gatekeeper"
    /\ sent.end = "breaker"
    /\ \E c \in Callers : Len(Prune(request_counts[c], now)) >= RATE_LIMIT(svc)

\* C9: a forwarded request makes at most retry_attempts (3) calls; the call
\* that returns a reply ends the loop and records a success; record_failure is
\* called only by the step in which the third call fails, once, and that step
\* ends the request; no other step of a retry loop records a failure.
C9_RetryLoop ==
    /\ \A h \in Handlers : hs[h].calls < retry_attempts /\ hs[h].attempt = hs[h].calls
    /\ sent.calls <= retry_attempts
    /\ sent.end = "returned" => (last.op = "record_success" /\ cb.failures = 0)
    /\ sent.end = "raised" =>
          (sent.calls = retry_attempts /\ last.op = "record_failure")
    /\ last.op = "record_failure" =>
          /\ sent.end = "raised"
          /\ sent.calls = retry_attempts
          /\ cb.failures = last.pre.failures + 1

\* the third call succeeded after two failed ones
C9_Witness ==
    /\ sent.end = "returned"
    /\ sent.calls = retry_attempts
    /\ last.op = "record_success"

\* C10: a request whose breaker check is made while the breaker is open and at
\* most timeout (60 s) have passed since last_failure_time ends in that step
\* with the error envelope "Service temporarily unavailable" and no HTTP call
\* (POST /query at the Gatekeeper; /query and /set_strategy at the Trusted Host).
C10_OpenShortCircuits ==
    (/\ last.op = "can_execute"
     /\ last.pre.state = "open"
     /\ last.t - last.pre.last_failure_time <= timeout) =>
        /\ sent.end = "breaker"
        /\ sent.resp = Error("Service temporarily unavailable", "")
        /\ sent.calls = 0
        /\ sent.ep \in {"query", "set_strategy"}

\* /set_strategy was refused at the Trusted Host by the open breaker
C10_Witness ==
    /\ svc = "trusted_host"
    /\ sent.ep = "set_strategy"
    /\ sent.end = "breaker"
    /\ last.pre.state = "open"
    /\ last.t - last.pre.last_failure_time = timeout

\* px_sent is what the Proxy step just taken returned; px_sent.p is the handler
\* that returned it, px_sent.p.execs the _execute_query calls it made, in order.
\* the responses of the write path and of the read path
WriteDone == px_sent.ep = "query" /\ px_sent.p.pc = "done" /\ px_sent.p.write
ReadDone == px_sent.ep = "query" /\ px_sent.p.pc = "done" /\ ~px_sent.p.write

\* C11: a write whose execution on the manager returned a result is answered
\* with exactly that result, whatever the replications to the workers did;
\* a successful manager write is answered with success.
C11_WriteReturnsManagerResult ==
    WriteDone =>
        LET e == px_sent.p.execs
        IN  /\ e[1].host = manager_host
            /\ e[1].outcome # "raise" => px_sent.resp = Result(manager_host, e[1].outcome)
            /\ e[1].outcome = "success" => px_sent.resp.status = "success"

\* a write answered with success although every replication failed, one by raising
C11_Witness ==
    /\ WriteDone
    /\ px_sent.resp.status = "success"
    /\ Len(px_sent.p.execs) = 1 + Len(worker_hosts)
    /\ \A i \in 2..Len(px_sent.p.execs) : px_sent.p.execs[i].outcome # "success"
    /\ \E i \in 2..Len(px_sent.p.execs) : px_sent.p.execs[i].outcome = "raise"

\* C12: a write is executed on the manager first; when that does not succeed
\* nothing else is executed; when it succeeds the same statement is executed
\* once on every worker, in the configured order, whatever each worker answers.
C12_ReplicationOrder ==
    /\ WriteDone =>
          LET e == px_sent.p.execs
          IN  /\ e[1].host = manager_host /\ e[1].stage = "manager"
              /\ e[1].outcome # "success" => Len(e) = 1
              /\ e[1].outcome = "success" =>
                    /\ Len(e) = 1 + Len(worker_hosts)
                    /\ \A i \in 1..Len(worker_hosts) :
                          e[i + 1].host = worker_hosts[i] /\ e[i + 1].stage = "replica"
              /\ \A i \in 1..Len(e) : e[i].q = px_sent.p.q
    /\ (px.pc = "exec" /\ px.stage = "replica") =>
          /\ px.execs[1].host = manager_host /\ px.execs[1].outcome = "success"
          /\ px.pending.host = worker_hosts[px.next]
          /\ Len(px.execs) = px.next

\* the first worker failed and the second one was still replicated to
C12_Witness ==
    /\ WriteDone
    /\ Len(px_sent.p.execs) = 3
    /\ px_sent.p.execs[2].outcome # "success"
    /\ px_sent.p.execs[3].outcome = "success"

\* C13: a read is executed on the selected host; when that returns an error and
\* the host is not the manager it is executed once more, on the manager, and
\* the manager's result is the answer; a success is answered at once; never
\* more than two executions, the second never on a worker.
C13_ReadFallback ==
    ReadDone =>
        LET e == px_sent.p.execs
            t == px_sent.p.target
        IN  /\ Len(e) \in {1, 2}
            /\ e[1].host = t /\ e[1].stage = "read"
            /\ (e[1].outcome = "error" /\ t # manager_host) =>
                  /\ Len(e) = 2
                  /\ e[2].host = manager_host /\ e[2].q = e[1].q
                  /\ e[2].outcome # "raise" => px_sent.resp = Result(manager_host, e[2].outcome)
            /\ e[1].outcome = "success" => (Len(e) = 1 /\ px_sent.resp = Result(t, "success"))
            /\ Len(e) = 2 =>
                  (e[1].outcome = "error" /\ t # manager_host /\ e[2].host = manager_host)

\* a worker failed a read and the manager's success was the answer
C13_Witness ==
    /\ ReadDone
    /\ Len(px_sent.p.execs) = 2
    /\ px_sent.p.target # manager_host
    /\ px_sent.resp = Result(manager_host, "success")

\* C14: a read whose host was selected while the strategy was direct is first
\* executed on worker_hosts[0].
C14_DirectFirstWorker ==
    /\ (px.pc \in {"call", "exec"} /\ px.stage = "read" /\ px.sel = "direct") =>
          px.target = worker_hosts[1]
    /\ (px.pc = "exec" /\ px.stage = "read") => px.pending.host = px.target
    /\ (ReadDone /\ px_sent.p.sel = "direct") =>
          px_sent.p.execs[1].host = worker_hosts[1]

\* a direct read answered by the first worker
C14_Witness ==
    /\ ReadDone
    /\ px_sent.p.sel = "direct"
    /\ px_sent.resp = Result(worker_hosts[1], "success")

\* C15: with strategy customized every worker is probed; the host selected is
\* a worker whose probe connected and took no longer than any other connected
\* probe, when some probe connected, and worker_hosts[0] when none did.
C15_FastestWorker ==
    (px.pc \in {"call", "exec"} /\ px.stage = "read" /\ px.sel = "customized") =>
        /\ DOMAIN px.probes = 1..Len(worker_hosts)
        /\ IF \E j \in 1..Len(worker_hosts) : px.probes[j].connected
           THEN \E i \in 1..Len(worker_hosts) :
                   /\ worker_hosts[i] = px.target
                   /\ px.probes[i].connected
                   /\ \A j \in 1..Len(worker_hosts) :
                         px.probes[j].connected => px.probes[i].latency <= px.probes[j].latency
           ELSE px.target = worker_hosts[1]

\* the first worker's probe failed and the second worker was selected
C15_Witness ==
    /\ px.pc = "call"
    /\ px.sel = "customized"
    /\ ~px.probes[1].connected
    /\ px.probes[2].connected
    /\ px.target = worker_hosts[2]

\* C16: every connection opened for a query uses the port of the strategy the
\* Proxy has when it opens it.
C16_PortOfStrategy ==
    /\ px.pc = "exec" => px.pending.port = strategy_ports[px.pending.strategy]
    /\ \A i \in 1..Len(px_sent.p.execs) :
          px_sent.p.execs[i].port = strategy_ports[px_sent.p.execs[i].strategy]

\* ch_sent is what the chain step just taken returned to a client: ch_sent.tier
\* the tier that returned it, ch_sent.before the three tiers' strategies when
\* the request arrived, ch_sent.hops the HTTP calls made for it.

\* C17: while the last change the Gatekeeper answered with a success envelope
\* is random, with no other change made during it or since, the Proxy's
\* strategy is random and the Proxy's GET /health reports current_port 3307.
C17_HealthReportsPort ==
    /\ ch.okname = "random" => px_strategy = "random"
    /\ (ch_sent.ep = "health" /\ ch_sent.tier = "proxy" /\ ch_sent.after = "random") =>
          /\ "current_port" \in DOMAIN ch_sent.resp
          /\ ch_sent.resp.current_port = strategy_ports["random"]

\* C18: a /set_strategy request the Gatekeeper does not answer with a success
\* envelope leaves the Gatekeeper's cached strategy as it was.
C18_CacheOnlyOnSuccess ==
    (/\ ch_sent.ep = "set_strategy"
     /\ ch_sent.tier = "gatekeeper"
     /\ ch_sent.resp.status # "success") => gk_strategy = ch_sent.before[1]

\* C19: the strategy stored by each tier is always direct, random or
\* customized; a /set_strategy request with another name is answered with an
\* error envelope, makes no HTTP call and leaves the three strategies as
\* they were.
C19_StrategyDomain ==
    /\ gk_strategy \in Strategies
    /\ current_strategy \in Strategies
    /\ px_strategy \in Strategies
    /\ (ch_sent.ep = "set_strategy" /\ ch_sent.name \notin Strategies) =>
          /\ ch_sent.resp.status = "error"
          /\ ch_sent.hops = 0
          /\ ch_sent.before = Snapshot

\* the Proxy rejected a name while its strategy was not the initial one
C19_Witness ==
    /\ ch_sent.ep = "set_strategy"
    /\ ch_sent.tier = "proxy"
    /\ ch_sent.name \notin Strategies
    /\ ch_sent.resp.status = "error"
    /\ px_strategy = "random"

\* probed is the time of the last GET /health that _check_proxy_health sent
\* (0: none yet); a handler thread enters pc "probe" when it sends one.

\* C20: the Trusted Host sends a health probe only when none was sent before
\* or at least health_check_interval (60 s) have passed since the last one
\* was sent, whatever that one returned.
C20_ProbeOncePerInterval ==
    [][(\E h \in Handlers : hs'[h].pc = "probe" /\ hs[h].pc # "probe") =>
          (probed = 0 \/ now - probed >= health_check_interval)]_vars

\* probe_status is what the last GET /health of _check_proxy_health that ended
\* found: "healthy" (status 200), "unhealthy" (another status, or the call
\* raised), "unknown" (none ended yet).

\* C21: while the last health probe that ended found the Proxy unhealthy, no
\* /query arriving at the Trusted Host goes on to a POST to the Proxy without
\* a new probe: it is answered at once or it sends the next probe.
C21_UnhealthyShortCircuits ==
    [][\A h \in Handlers :
          (/\ probe_status = "unhealthy"
           /\ hs[h].pc = "idle"
           /\ hs'[h].ep = "query") => hs'[h].pc # "forward"]_vars

\* fw.inb is the JSON body a tier received, fw.out the body it sends on in its
\* HTTP call, fw.s1 the Gatekeeper's cached strategy when it handled the body.

\* C22: the body the Trusted Host forwards carries the port of the strategy
\* field of the body it received (3306 when the strategy is not in the
\* table), whatever port came in; the body the Gatekeeper forwards carries
\* the Gatekeeper's cached strategy and the port of that strategy, whatever
\* the client sent.
C22_ForwardedPort ==
    /\ (fw.pc = "sent" /\ fw.tier = "trusted_host" /\ "strategy" \in DOMAIN fw.inb) =>
          /\ fw.out.port = IF fw.inb.strategy \in Strategies
                           THEN STRATEGY_PORTS[fw.inb.strategy] ELSE STRATEGY_PORTS["direct"]
          /\ fw.out.strategy = fw.inb.strategy
    /\ (fw.pc = "sent" /\ fw.tier = "gatekeeper") =>
          /\ fw.out.strategy = fw.s1
          /\ fw.out.port = STRATEGY_PORTS[fw.s1]

\* sent.got is the JSON body of the downstream reply the step just taken
\* received, sent.resp what the service answered its own caller.

\* C23: a forward that succeeds is answered with the JSON body the downstream
\* tier returned, unchanged, at the Gatekeeper and at the Trusted Host, for
\* success and for error envelopes.
C23_PassedUnchanged ==
    sent.end = "returned" => (sent.resp = sent.got /\ sent.got \in DownstreamReplies)

\* the Gatekeeper passed an error envelope of the Trusted Host up
C23_Witness ==
    /\ svc = "gatekeeper"
    /\ sent.ep = "query"
    /\ sent.end = "returned"
    /\ sent.resp.status = "error"
    /\ sent.calls = retry_attempts

\* sent, px_sent and ch_sent are what the step just taken answered: a tier to
\* a /query or /set_strategy request, the Proxy, a tier of the chain to a
\* /set_strategy or /health request.

\* a JSON object with a status field
HasStatus(resp) == "status" \in DOMAIN resp /\ resp.status \in {"success", "error", "ok"}

\* C24: every response of every endpoint of the three tiers is a JSON object
\* with a status field, whichever way the request ended.
C24_StatusAlways ==
    /\ sent.ep # "none" => HasStatus(sent.resp)
    /\ px_sent.ep # "none" => HasStatus(px_sent.resp)
    /\ ch_sent.ep # "none" => HasStatus(ch_sent.resp)

\* the last attempt of a forward raised and the request was answered with the
\* envelope of the generic except clause
C24_Witness ==
    /\ sent.ep = "query"
    /\ sent.end = "raised"
    /\ sent.calls = retry_attempts
    /\ sent.resp = Error("Internal server error", "")

\* C25: a request the Gatekeeper rejects for its query, for the rate limit or
\* for its body makes no forward call and calls neither record_failure nor
\* record_success: the breaker's failures and last_failure_time stay as they
\* were.
C25_RejectionLeavesBreaker ==
    [][(svc = "gatekeeper" /\ sent'.end \in {"invalid", "rate", "format", "size", "unparsable"})
          => /\ sent'.calls = 0
             /\ cb'.failures = cb.failures
             /\ cb'.last_failure_time = cb.last_failure_time
             /\ last'.op \notin {"record_failure", "record_success"}
             /\ \A h \in Handlers : hs'[h] = hs[h]]_vars

\* a query was rejected by the validator while the breaker held four failures
C25_Witness ==
    /\ svc = "gatekeeper"
    /\ sent.end = "invalid"
    /\ sent.calls = 0
    /\ last.op = "can_execute"
    /\ cb.failures = threshold - 1
    /\ cb.last_failure_time = last.pre.last_failure_time

\* a semicolon of query at a position other than the last
NonTerminalSemicolon(query) == \E i \in 1..(Len(query) - 1) : query[i] = ";"

\* C26: validate_query returns invalid for every query that holds a semicolon
\* at any position other than its final character.
C26_NonTerminalSemicolonInvalid ==
    (vq.n > 0 /\ NonTerminalSemicolon(vq.query)) => ~vq.valid

\* a query that starts with SELECT, holds a semicolon before its last character
\* and nothing else a rule looks for, has been rejected as multiple statements
C26_Witness ==
    /\ vq.n > 0
    /\ vq.query = PSelect \o PSemicolon \o POne
    /\ ~vq.valid
    /\ vq.reason[1] = "Multiple statements are not allowed"

\* query without its last character
Front(query) == SubSeq(query, 1, Len(query) - 1)

\* C28: a semicolon as the final character is allowed: a query that is valid
\* without a trailing semicolon is valid with a single semicolon appended.
C28_TrailingSemicolonAllowed ==
    (/\ vq.n > 0
     /\ Len(vq.query) >= 2
     /\ vq.query[Len(vq.query)] = ";"
     /\ validate_query(Front(vq.query)).ok) => vq.valid

\* the first word of query, the leading word characters of query_upper, is word
FirstWordIs(query, word) ==
    LET query_upper == strip(replace_newline(upper(query)))
    IN  /\ StartsWith(query_upper, word)
        /\ Len(query_upper) = Len(word) \/ ~IsWordChar(query_upper[Len(word) + 1])

\* the signatures the allow-listed, signature-free query is free of
SignatureNames == {"UNION", "SLEEP", "WAITFOR", "DELAY", "IF(", "WHEN", "@@", "@"}

\* query starts with an allow-listed verb, is at most 5000 characters long and
\* holds no deny-listed keyword, comment marker, non-terminal semicolon,
\* signature or attack
AllowListedAndFree(query) ==
    LET query_upper == strip(replace_newline(upper(query)))
    IN  /\ \E i \in 1..Len(valid_commands) : StartsWith(query_upper, valid_commands[i].text)
        /\ \A i \in 1..Len(dangerous_keywords) :
              ~SearchWord(query_upper, dangerous_keywords[i].text)
        /\ ~Contains(query, TxtDashDash) /\ ~Contains(query, TxtSlashStar)
        /\ ~NonTerminalSemicolon(query)
        /\ \A i \in 1..Len(injection_patterns) :
              injection_patterns[i].name \in SignatureNames
                  => ~Contains(query_upper, injection_patterns[i].text)
        /\ ~SearchOrOneEqualsOne(query_upper) /\ ~SearchOrQuoted(query_upper)
        /\ ~SearchSchema(query_upper) /\ ~SearchExec(query_upper)
        /\ Len(query) <= MaxQueryLength

\* C27: a query whose first word is not an allow-listed verb is invalid; a
\* query that starts with an allow-listed verb, is at most 5000 characters
\* long and holds no deny-listed keyword, comment marker, non-terminal
\* semicolon, signature substring or attack-regex match is valid.
C27_VerbAllowList ==
    vq.n > 0 =>
        /\ (\A i \in 1..Len(valid_commands) : ~FirstWordIs(vq.query, valid_commands[i].text))
               => ~vq.valid
        /\ AllowListedAndFree(vq.query) => vq.valid

\* the rules of validate_query, each on its own: rule k is broken by query
Breaks(k, query) ==
    LET query_upper == strip(replace_newline(upper(query)))
    IN  CASE k = 1 -> query = <<>>
          [] k = 2 -> Len(query) > MaxQueryLength
          [] k = 3 -> NonTerminalSemicolon(query)
          [] k = 4 -> Contains(query, TxtDashDash) \/ Contains(query, TxtSlashStar)
          [] k = 5 -> \E i \in 1..Len(dangerous_keywords) :
                         SearchWord(query_upper, dangerous_keywords[i].text)
          [] k = 6 -> ~\E i \in 1..Len(valid_commands) :
                         StartsWith(query_upper, valid_commands[i].text)
          [] k = 7 -> \E i \in 1..Len(injection_patterns) :
                         Contains(query_upper, injection_patterns[i].text)
          [] k = 8 -> \/ SearchOrOneEqualsOne(query_upper) \/ SearchOrQuoted(query_upper)
                      \/ SearchSchema(query_upper) \/ SearchExec(query_upper)

\* the message of each rule
RuleReason == <<
    "Empty query",
    "Query exceeds maximum length",
    "Multiple statements are not allowed",
    "Comments are not allowed in queries",
    "Query contains forbidden keyword: ",
    "Query must start with a valid SQL command",
    "Query contains suspicious pattern: ",
    "Query contains suspicious pattern"
>>

\* C29: the rules are applied in the order empty, length, non-terminal
\* semicolon, comment marker, deny-listed keyword, allow-listed verb, injection
\* substring, attack regex; the reason returned for a query that breaks some
\* rules is the reason of the earliest of them, and a query that breaks none
\* is valid.
C29_FirstRuleDecides ==
    vq.n > 0 =>
        LET broken == {k \in 1..Len(RuleReason) : Breaks(k, vq.query)}
        IN  IF broken = {}
            THEN vq.valid
            ELSE /\ ~vq.valid
                 /\ vq.reason[1] = RuleReason[CHOOSE k \in broken : \A j \in broken : k <= j]

\* a query that breaks the keyword rule and the verb rule has been rejected
\* for the keyword
C29_Witness ==
    /\ vq.n > 0
    /\ vq.query = PDrop \o PSpace \o PLetter
    /\ Breaks(5, vq.query) /\ Breaks(6, vq.query)
    /\ vq.reason = <<"Query contains forbidden keyword: ", "DROP">>

\* text holds word at some position, whatever the case of its letters
HoldsWord(text, word) ==
    \E i \in 1..(Len(text) - Len(word) + 1) :
        \A j \in 1..Len(word) : upper_char(text[i + j - 1]) = word[j]

\* the handler p of a query is on the write path exactly when the text holds
\* a write word; what it executed first was on the manager for a write and on
\* the worker the strategy selected for any other query
RoutedByText(p) ==
    LET text == ProxyQueries[p.q]
        written == \E word \in WriteWords : HoldsWord(text, word)
    IN  /\ p.write = written
        /\ written => p.stage \notin {"read", "fallback"}
        /\ ~written =>
              /\ p.stage \in {"read", "fallback"}
              /\ p.target \in select_read_host(p.sel, worker_hosts, p.probes)
              /\ p.target \in {worker_hosts[i] : i \in 1..Len(worker_hosts)}
        /\ p.execs # <<>> =>
              IF written
              THEN p.execs[1].host = manager_host /\ p.execs[1].stage = "manager"
              ELSE p.execs[1].host = p.target /\ p.execs[1].stage = "read"

\* C30: the Proxy takes the write path if and only if the query text holds,
\* in any case, one of INSERT, UPDATE, DELETE, CREATE, DROP, ALTER as a
\* substring; such a query is executed on the manager first whatever the
\* strategy, any other query on the read path, first on a worker chosen by the
\* strategy.
C30_WriteIffWord ==
    /\ px.pc # "idle" => RoutedByText(px)
    /\ (px_sent.ep = "query" /\ px_sent.p.q # 0) => RoutedByText(px_sent.p)

\* a SELECT of the column last_update answered by the manager on the write
\* path while the strategy is random
C30_Witness ==
    /\ px_sent.ep = "query"
    /\ px_sent.p.q # 0
    /\ ProxyQueries[px_sent.p.q] = QLastUpdate
    /\ px_sent.p.write
    /\ px_sent.p.execs[1].host = manager_host
    /\ px_sent.p.execs[1].strategy = "random"

\* the checks of the client of check i that returned True and whose timestamps
\* lie in the RATE_WINDOW seconds that end with the timestamp of check i
PassedWithin(i) ==
    {j \in 1..Len(hist) :
        /\ hist[j].c = hist[i].c
        /\ hist[j].ret
        /\ hist[i].t - hist[j].t >= 0
        /\ hist[i].t - hist[j].t < RATE_WINDOW}

\* C31: when requests of one client are checked concurrently by a tier's rate
\* limiter no timestamp is lost: at most RATE_LIMIT checks whose timestamps
\* lie within any 60 s window return True, and once every check has returned
\* the client's list holds the timestamp of each check younger than 60 s.
C31_ConcurrentChecksSafe ==
    /\ \A i \in 1..Len(hist) : Cardinality(PassedWithin(i)) <= RATE_LIMIT(svc)
    /\ (\A h \in Handlers : hs[h].pc = "idle") =>
          \A c \in Clients :
             LET mine == {i \in 1..Len(hist) : hist[i].c = c}
                 newest == CHOOSE i \in mine : \A j \in mine : hist[i].t >= hist[j].t
             IN  mine # {} =>
                    Len(request_counts[c]) =
                       Cardinality({i \in mine : hist[newest].t - hist[i].t < RATE_WINDOW})

\* C32: the half-open state has no single-flight gate: a can_execute call on a
\* half-open breaker returns True and leaves it half-open, so requests handled
\* concurrently are all forwarded; a record_failure on a half-open breaker
\* increments the failure count again and opens the breaker.
C32_HalfOpenAdmitsAll ==
    /\ (last.op = "can_execute" /\ last.pre.state = "half-open") =>
          (last.ret = TRUE /\ cb.state = "half-open" /\ cb.failures = last.pre.failures)
    /\ (last.op = "record_failure" /\ last.pre.state = "half-open") =>
          /\ cb.failures = last.pre.failures + 1
          /\ cb.failures > threshold
          /\ cb.state = "open"
          /\ cb.last_failure_time = last.t

\* two requests are in their forward calls at the same time on a half-open
\* breaker, the second admitted by a can_execute made in half-open
C32_Witness ==
    /\ cb.state = "half-open"
    /\ \A h \in Handlers : hs[h].pc = "forward"
    /\ last.op = "can_execute"
    /\ last.pre.state = "half-open"

\* the connections the executions execs left open
RECURSIVE OpenConnections(_)
OpenConnections(execs) ==
    IF execs = <<>> THEN 0 ELSE Head(execs).open + OpenConnections(Tail(execs))

\* C33: every connection the Proxy opens is released on every exit path of
\* _execute_query: the executions of a query, finished or under way, have left
\* no connection open, so the number of open connections after completed
\* queries is 0.
C33_ConnectionsReleased ==
    /\ OpenConnections(px.execs) = 0
    /\ OpenConnections(px_sent.p.execs) = 0

\* C34: with the breaker methods called one at a time, the state is closed
\* exactly when the failure count is below the threshold, and the count is at
\* least the threshold in the open and half-open states; a record_failure on
\* a half-open breaker therefore opens it and restarts the timeout from the
\* time of that failure.
C34_StateAndCount ==
    /\ cb.state = "closed" <=> cb.failures < threshold
    /\ cb.state \in {"open", "half-open"} => cb.failures >= threshold
    /\ (last.op = "record_failure" /\ last.pre.state = "half-open") =>
          /\ cb.state = "open"
          /\ cb.last_failure_time = last.t
          /\ ~can_execute(cb, last.t + timeout).ret
          /\ can_execute(cb, last.t + timeout + 1).ret

\* a failure recorded on a breaker that a can_execute made half-open after
\* the timeout
C34_Witness ==
    /\ last.op = "record_failure"
    /\ last.pre.state = "half-open"
    /\ last.pre.failures = threshold
    /\ last.t - last.pre.last_failure_time > timeout
    /\ cb.state = "open"

\* C35: when strategy changes enter only through the Gatekeeper and no
\* /set_strategy request is in flight, the Gatekeeper's cached strategy, the
\* Trusted Host's cached strategy and the Proxy's active strategy are equal,
\* also after changes in which a hop timed out or was retried.
C35_StrategiesAgree ==
    ch.pc = "idle" => (gk_strategy = current_strategy /\ current_strategy = px_strategy)

\* C36: for every read the Proxy handles, the port its selected host is
\* connected on is the port of the strategy that selected the host, also when
\* /set_strategy assigns current_strategy while the read is being handled.
C36_HostAndPortSameStrategy ==
    \A p \in {px, px_sent.p} :
       /\ \A i \in 1..Len(p.execs) :
             p.execs[i].stage = "read" => p.execs[i].port = get_port(p.sel)
       /\ (p.pc = "exec" /\ p.stage = "read") => p.pending.port = get_port(p.sel)

\* C37: a downstream reply with a 2xx status is a breaker success whatever its
\* body: the attempt that receives it calls record_success, leaves the breaker
\* closed with failures 0, makes no further attempt and answers the reply as
\* it came (error envelopes included); record_failure is called only by an
\* attempt that ended in a timeout, a connection error or a non-2xx status,
\* never by one that called record_success.
C37_ReplyIsSuccess ==
    [][\A h \in Handlers :
          (hs[h].pc = "forward" /\ hs'[h] # hs[h]) =>
             /\ last'.op = "record_success" =>
                   /\ hs'[h] = Idle
                   /\ sent'.end = "returned"
                   /\ sent'.resp = sent'.got
                   /\ cb'.failures = 0
                   /\ cb'.state = "closed"
             /\ last'.op = "record_failure" => last'.pre = cb]_vars

\* the checks of client c, allowed or denied, younger than RATE_WINDOW at the
\* time of c's newest check, and their timestamps in call order
RecentChecks(c) ==
    LET mine == SelectSeq(hist, LAMBDA e : e.c = c)
    IN  SelectSeq(mine, LAMBDA e : mine[Len(mine)].t - e.t < RATE_WINDOW)
Stamps(checks) == [k \in 1..Len(checks) |-> checks[k].t]

\* C38: a rate-limit check that returns False still appends its timestamp:
\* the client's list holds the timestamp of every check, allowed or denied,
\* of the last 60 s, and a check returns True only when fewer than RATE_LIMIT
\* of the client's earlier checks, denied ones included, lie within the 60 s
\* before it.
C38_DeniedChecksCount ==
    /\ \A c \in Clients : request_counts[c] = Stamps(RecentChecks(c))
    /\ \A i \in 1..Len(hist) :
          hist[i].ret =>
             Cardinality({j \in 1..(i - 1) :
                             /\ hist[j].c = hist[i].c
                             /\ hist[i].t - hist[j].t < RATE_WINDOW}) < RATE_LIMIT(svc)

\* a check is denied although every allowed check of its client is older
\* than 60 s: only denied checks fill the window
C38_Witness ==
    \E i \in 1..Len(hist) :
       /\ hist[i].ret = FALSE
       /\ request_counts[hist[i].c][Len(request_counts[hist[i].c])] = hist[i].t
       /\ \A j \in 1..(i - 1) :
             (hist[j].c = hist[i].c /\ hist[j].ret) => hist[i].t - hist[j].t >= RATE_WINDOW

\* the blocking calls a request of the Gatekeeper or the Trusted Host at
\* position r can still make before it answers, and those of the Proxy's
\* request p
Steps(r) ==
    CASE r.pc = "probe" -> retry_attempts + 1
      [] r.pc = "forward" -> retry_attempts - r.attempt
      [] OTHER -> 0
PxSteps(p) ==
    CASE p.pc = "call" -> 3
      [] p.pc = "exec" /\ p.stage = "read" -> 2
      [] p.pc = "exec" /\ p.stage = "fallback" -> 1
      [] p.pc = "exec" /\ p.stage = "manager" -> Len(worker_hosts) + 1
      [] p.pc = "exec" /\ p.stage = "replica" -> Len(worker_hosts) + 1 - p.next
      [] OTHER -> 0
\* the query executions of the Proxy's request p, the one under way included
Executions(p) == Len(p.execs) + (IF p.pc = "exec" THEN 1 ELSE 0)

\* C39: every POST /query is answered once its blocking calls return: each
\* step of a request under way lowers the number of calls it can still make,
\* the Gatekeeper and the Trusted Host make at most 3 forward calls per
\* request, the Proxy at most 2 executions per read and at most 1 + (number
\* of workers) per write.
C39_QueriesTerminate ==
    [][/\ \A h \in Handlers :
             /\ (hs[h].pc # "idle" /\ hs'[h] # hs[h]) =>
                   (Steps(hs'[h]) < Steps(hs[h]) /\ Steps(hs'[h]) >= 0)
             /\ hs'[h].pc = "forward" => hs'[h].calls + 1 <= retry_attempts
       /\ sent'.calls <= retry_attempts
       /\ (px.pc # "idle" /\ px' # px) =>
             (PxSteps(px') < PxSteps(px) /\ PxSteps(px') >= 0)
       /\ \A p \in {px', px_sent'.p} :
             Executions(p) <= (IF p.write THEN 1 + Len(worker_hosts) ELSE 2)]_vars

\* a Gatekeeper request answered after its third call failed, no request
\* left under way
C39_Witness ==
    /\ svc = "gatekeeper"
    /\ sent.ep = "query"
    /\ sent.end = "raised"
    /\ sent.calls = retry_attempts
    /\ \A h \in Handlers : hs[h].pc = "idle"

====
